---- MODULE Spec2Model ----
(***************************************************************************)
(* flexpane: the todo store (TodoService / TodoFileProvider) and the pane  *)
(* registry, modelled from the Go sources.                                 *)
(*                                                                         *)
(* Spec      the todo store, one caller, every handler one atomic action   *)
(* SpecConc  the todo store, several request workers, one step per         *)
(*           statement, the sync.RWMutex modelled explicitly               *)
(* SpecReg   the pane registry                                             *)
(***************************************************************************)
EXTENDS Integers, Sequences, FiniteSets, TLC

\* ------------------------------------------------------------------ bounds
MaxTodos == 3
MaxFaults == 1
MaxCalls == 2
MaxEnabled == 3
MaxRegs == 2
MaxPaneRegs == 5
MaxProvRegs == 4
MaxHttpTodos == 2
MaxDataCalls == 2

Msgs == {"a", "b"}

\* ------------------------------------------------------ models.Todo, slices
ZeroTodo == [done |-> FALSE, message |-> ""]

NewTodo(message) == [done |-> FALSE, message |-> message]

\* []models.Todo{} : a slice header over no backing array
EmptySlice == [arr |-> 0, len |-> 0, cap |-> 0]

\* the elements seen through slice header sl over the heap of backing arrays
Elems(arrs, sl) == IF sl.len = 0 THEN <<>> ELSE SubSeq(arrs[sl.arr], 1, sl.len)

\* a bug: append that reorders (pushes to the front)
AppendSliceFront(arrs, sl, t) ==
  LET na == <<t>> \o Elems(arrs, sl)
  IN  [arrays |-> Append(arrs, na),
       slice  |-> [arr |-> Len(arrs) + 1, len |-> Len(na), cap |-> Len(na)]]

\* Go's append(s, t): in place when capacity allows, else a fresh array of
\* doubled capacity with the old elements copied
AppendSlice(arrs, sl, t) ==
  IF sl.len < sl.cap
  THEN [arrays |-> [arrs EXCEPT ![sl.arr][sl.len + 1] = t],
        slice  |-> [sl EXCEPT !.len = @ + 1]]
  ELSE LET newcap == IF sl.cap = 0 THEN 1 ELSE 2 * sl.cap
           na == [i \in 1..newcap |->
                    IF i <= sl.len THEN arrs[sl.arr][i]
                    ELSE IF i = sl.len + 1 THEN t ELSE ZeroTodo]
       IN  [arrays |-> Append(arrs, na),
            slice  |-> [arr |-> Len(arrs) + 1, len |-> sl.len + 1, cap |-> newcap]]

\* a bug: the flag is set instead of flipped
FlipDoneSet(arrs, sl, index) ==
  [arrs EXCEPT ![sl.arr][index + 1].done = TRUE]

\* s.todos[index].Done = !s.todos[index].Done, written through the header
FlipDone(arrs, sl, index) ==
  [arrs EXCEPT ![sl.arr][index + 1].done = ~@]

\* the garbage collector: backing arrays no live slice header refers to are
\* freed; the live ones are renumbered in allocation order
Rank(used, a) == IF a = 0 THEN 0 ELSE Cardinality({u \in used : u <= a})

Sweep(arrs, used) ==
  [k \in 1..Cardinality(used) |-> arrs[CHOOSE u \in used : Rank(used, u) = k]]

Move(sl, used) == [sl EXCEPT !.arr = Rank(used, @)]

Refs(roots) == {r.arr : r \in roots} \ {0}

\* ------------------------------------------------------------ encoding/json
Tok(k, v) == [k |-> k, v |-> v]

BoolTok(b) == Tok("bool", IF b THEN "true" ELSE "false")

MarshalTodo(t) ==
  << Tok("p", "{"), Tok("key", "done"), BoolTok(t.done), Tok("p", ","),
     Tok("key", "message"), Tok("str", t.message), Tok("p", "}") >>

RECURSIVE MarshalItems(_)
MarshalItems(ts) ==
  IF ts = <<>> THEN <<>>
  ELSE IF Len(ts) = 1 THEN MarshalTodo(ts[1])
  ELSE MarshalTodo(ts[1]) \o <<Tok("p", ",")>> \o MarshalItems(Tail(ts))

\* json.MarshalIndent(s.todos, "", "  ")
MarshalIndent(ts) == <<Tok("p", "[")>> \o MarshalItems(ts) \o <<Tok("p", "]")>>

IsValue(tok) == tok.k \in {"bool", "str"}

\* one object of the array: { key value , key value }
IsObject(d, i) ==
  /\ i + 6 <= Len(d)
  /\ d[i] = Tok("p", "{")
  /\ d[i + 1].k = "key" /\ IsValue(d[i + 2])
  /\ d[i + 3] = Tok("p", ",")
  /\ d[i + 4].k = "key" /\ IsValue(d[i + 5])
  /\ d[i + 6] = Tok("p", "}")

RECURSIVE ValidItems(_, _)
ValidItems(d, i) ==
  /\ IsObject(d, i)
  /\ \/ i + 7 = Len(d) /\ d[i + 7] = Tok("p", "]")
     \/ i + 8 <= Len(d) /\ d[i + 7] = Tok("p", ",") /\ ValidItems(d, i + 8)

\* the syntax scan json.Unmarshal runs before it stores anything
checkValid(d) ==
  /\ Len(d) >= 2
  /\ d[1] = Tok("p", "[")
  /\ \/ Len(d) = 2 /\ d[2] = Tok("p", "]")
     \/ ValidItems(d, 2)

\* one "key": value pair stored into a Todo; a value of the wrong JSON type
\* is skipped (UnmarshalTypeError is saved, decoding goes on)
SetField(t, key, val) ==
  IF key.v = "done" /\ val.k = "bool" THEN [t EXCEPT !.done = (val.v = "true")]
  ELSE IF key.v = "message" /\ val.k = "str" THEN [t EXCEPT !.message = val.v]
  ELSE t

FieldTypeError(key, val) ==
  \/ key.v = "done" /\ val.k # "bool"
  \/ key.v = "message" /\ val.k # "str"

DecodeObject(d, i) ==
  SetField(SetField(ZeroTodo, d[i + 1], d[i + 2]), d[i + 4], d[i + 5])

ObjectTypeError(d, i) ==
  FieldTypeError(d[i + 1], d[i + 2]) \/ FieldTypeError(d[i + 4], d[i + 5])

RECURSIVE DecodeItems(_, _)
DecodeItems(d, i) ==
  IF i + 6 > Len(d) THEN <<>>
  ELSE <<DecodeObject(d, i)>> \o DecodeItems(d, i + 8)

RECURSIVE AnyTypeError(_, _)
AnyTypeError(d, i) ==
  IF i + 6 > Len(d) THEN FALSE
  ELSE ObjectTypeError(d, i) \/ AnyTypeError(d, i + 8)

\* json.Unmarshal(data, &s.todos) with s.todos = old:  a syntax error stores
\* nothing, a type error stores the rest and is still reported
Unmarshal(d, old) ==
  IF ~checkValid(d) THEN [todos |-> old, err |-> "syntax"]
  ELSE [todos |-> DecodeItems(d, 2),
        err   |-> IF AnyTypeError(d, 2) THEN "type" ELSE "none"]

\* ------------------------------------------------------------ the file
NoFile == [exists |-> FALSE, data |-> <<>>]

FileOf(data) == [exists |-> TRUE, data |-> data]

WriteOutcomes == {"ok", "eopen", "ewrite"}

\* os.WriteFile(name, data, 0644): open with O_TRUNC, write, close.  A
\* failed open leaves the file as it was, a failed write leaves it truncated
WriteFile(f, data, out) ==
  CASE out = "ok"     -> FileOf(data)
    [] out = "eopen"  -> f
    [] out = "ewrite" -> FileOf(<<>>)

\* s.save(): the whole list re-serialised, the file overwritten
save(ts, f, out) ==
  [fs  |-> WriteFile(f, MarshalIndent(ts), out),
   err |-> IF out = "ok" THEN "none" ELSE "write"]

\* s.load(): directory, read, and either create the file or deserialise it
load(f, mk, rd, wr) ==
  IF mk # "ok" THEN [todos |-> <<>>, fs |-> f, err |-> "mkdir"]
  ELSE IF ~f.exists
       THEN LET s == save(<<>>, f, wr)
            IN  [todos |-> <<>>, fs |-> s.fs, err |-> s.err]
  ELSE IF rd # "ok" THEN [todos |-> <<>>, fs |-> f, err |-> "read"]
  ELSE LET u == Unmarshal(f.data, <<>>)
       IN  [todos |-> u.todos, fs |-> f, err |-> u.err]

\* the slice json.Unmarshal builds for a decoded list: grown item by item
RECURSIVE SliceOf(_, _, _)
SliceOf(arrs, sl, ts) ==
  IF ts = <<>> THEN [arrays |-> arrs, slice |-> sl]
  ELSE LET a == AppendSlice(arrs, sl, ts[1])
       IN  SliceOf(a.arrays, a.slice, Tail(ts))

\* a fresh store over the same file, every I/O call of its load succeeding
Reopen(f) == load(f, "ok", "ok", "ok").todos

\* ------------------------------------------------------------------ state
VARIABLES
  fs,           \* the todo file: [exists, data]
  arrays,       \* the heap: backing arrays of []models.Todo, in allocation order
  todos,        \* s.todos, a slice header [arr, len, cap]
  constructed,  \* NewTodoService has returned the store
  loadErr,      \* what s.load() returned inside NewTodoService
  faults,       \* I/O faults injected so far
  pure,         \* history: store started empty, only successful Adds since
  adds,         \* history: the messages of those Adds, in call order
  allOk,        \* history: every Add/Toggle call so far returned nil
  last,         \* history: the latest Add/Toggle call, with the state before it
  pair,         \* history: set when last repeats the toggle before it
  wlock,        \* s.mutex: the workers holding it for writing
  rlock,        \* s.mutex: the workers holding it for reading
  pc,           \* each request worker's position in its call
  loc,          \* each worker's call: its arguments and locals
  held,         \* the slice header GetTodos returned to each worker
  seen,         \* history: the items that header showed when it was returned
  calls,        \* calls each worker has started
  serialList,   \* history: the list after the calls so far, run one by one
  serialFs,     \* history: the file after the calls so far, run one by one
  okAdds,       \* history: the messages of the Adds that returned nil
  lastSave,     \* history: the outcome of the latest s.save()
  panes,        \* pr.panes: pane ID -> pane
  enabled,      \* pr.enabled: the enabled pane IDs, in display order
  layout,       \* pr.layout: pane ID -> PaneLayoutConfig
  regOrder,     \* history: the IDs in the order RegisterPane got them
  regLog,       \* history: the panes RegisterPane got, the map SetLayout got last
  resolved,     \* what the latest GetEnabledPanes returned: [data, err]
  fresh,        \* history: nothing changed the registry since that call
  dataProviderConstructors, \* pf.dataProviderConstructors: pane type -> constructor
  serviceConstructors,      \* pf.serviceConstructors: pane type -> constructor
  dataProviderRegistry,     \* pf.dataProviderRegistry: name -> DataProvider
  paneRegs,     \* history: the pane type registrations, in call order
  pfRet,        \* what the latest CreatePane / GetAvailablePaneTypes returned
  payload,      \* what the latest GetData of the created pane returned
  constructors, \* pf.constructors of the provider factory: type -> constructor
  provRegs,     \* history: the RegisterProvider calls, in call order
  provRet,      \* what the latest CreateProvider / GetAvailableProviders returned
  deploy,       \* the build serving /api/todos: [route, store, pane]
  resp,         \* the latest request to /api/todos and its response
  gmail,        \* the GmailProvider: token, services, userInfo, authenticated
  gmailHist,    \* history: its calls so far and what the latest data call returned
  nullCalls,    \* history: the calls a NullProvider served, with their results
  origin,       \* history: the file the store was constructed over
  ready,        \* history: the outcome the file system had for the latest call's write
  mutex,        \* s.mutex as an RWMutex: [writer, readers]
  callers,      \* each caller's call on the store: [at, op, msg, idx, path]
  shared,       \* the file providers over one todo file: [made, todoFile, slice]
  sharedHist    \* history: the Adds that returned nil, and the latest caller

storeVars == <<fs, arrays, todos, constructed, loadErr, faults>>
histVars  == <<pure, adds, allOk, last, pair>>
concVars == <<wlock, rlock, pc, loc, held, seen, calls,
              serialList, serialFs, okAdds, lastSave>>
regVars == <<panes, enabled, layout, regOrder, regLog, resolved, fresh>>
\* the components other than the todo store
pfVars == <<dataProviderConstructors, serviceConstructors,
            dataProviderRegistry, paneRegs, pfRet, payload>>
\* the factories and adapters around the store and the registry
provVars == <<constructors, provRegs, provRet>>
httpVars == <<deploy, resp>>
gmailVars == <<gmail, gmailHist>>
nullVars == <<nullCalls>>
\* the components modelled on their own
originVars == <<origin, ready>>
lockVars == <<mutex, callers>>
sharedVars == <<shared, sharedHist>>
sideVars == <<nullVars, originVars, lockVars, sharedVars>>
extVars == <<pfVars, provVars, httpVars, gmailVars, sideVars>>
\* what the pane factory leaves alone
pfOthers == <<storeVars, histVars, concVars, regVars, provVars, httpVars,
              gmailVars, sideVars>>
\* what the provider factory leaves alone
provOthers == <<storeVars, histVars, concVars, regVars, pfVars, httpVars,
                gmailVars, sideVars>>
restVars == <<regVars, extVars>>
todoVars == <<storeVars, histVars, concVars>>
vars == <<storeVars, histVars, concVars, regVars, extVars>>

\* s.GetTodos(): the slice header itself
GetTodos == todos

\* what a caller reads through the result of GetTodos right now
List == Elems(arrays, GetTodos)

NoCall == [op |-> "none", msg |-> "", idx |-> 0, err |-> "none",
           preTodos |-> <<>>, preFs |-> NoFile]

Call(op, msg, idx, err) ==
  [op |-> op, msg |-> msg, idx |-> idx, err |-> err,
   preTodos |-> List, preFs |-> fs]

\* the files a store may be constructed over: absent, written by an earlier
\* store, cut short, and valid JSON written by hand (message before done)
InitFiles ==
  { NoFile,
    FileOf(MarshalIndent(<<>>)),
    FileOf(MarshalIndent(<<NewTodo("a")>>)),
    FileOf(MarshalIndent(<<[done |-> TRUE, message |-> "b"], NewTodo("a")>>)),
    FileOf(SubSeq(MarshalIndent(<<NewTodo("a")>>), 1, 4)),
    FileOf(<< Tok("p", "["), Tok("p", "{"), Tok("key", "message"), Tok("str", "b"),
              Tok("p", ","), Tok("key", "done"), Tok("bool", "false"),
              Tok("p", "}"), Tok("p", "]") >>) }

Workers == {"w1", "w2"}

NoLoc == [msg |-> "", idx |-> 0, sl |-> EmptySlice, err |-> "none"]

InitWorkers ==
  /\ wlock = {}
  /\ rlock = {}
  /\ pc = [w \in Workers |-> "idle"]
  /\ loc = [w \in Workers |-> NoLoc]
  /\ held = [w \in Workers |-> EmptySlice]
  /\ seen = [w \in Workers |-> <<>>]
  /\ calls = [w \in Workers |-> 0]

\* ------------------------------------------------------- pane registry
PaneIDs == {"todos", "calendar"}
EnabledIDs == PaneIDs \cup {"ghost"}

\* the panes startup may register: MockPane{id, title, template, data, err}
Panes ==
  [id : PaneIDs, title : {"T", "T2"}, fails : BOOLEAN]

ZeroLayout == [GridArea |-> [Row |-> "", Column |-> ""]]

LayoutOf(r, c) == [GridArea |-> [Row |-> r, Column |-> c]]

\* the layout maps a configuration may carry
Layouts ==
  { <<>>,
    [x \in {"todos"} |-> LayoutOf("1", "span 2")],
    [x \in {"todos", "calendar"} |->
       IF x = "todos" THEN LayoutOf("2", "1") ELSE LayoutOf("1", "1 / 4")] }

\* pane.GetData(ctx): (data, err)
GetData(pane) ==
  IF pane.fails THEN [data |-> [nil |-> FALSE, of |-> pane.id], err |-> "fetch"]
  ELSE [data |-> [nil |-> FALSE, of |-> pane.id], err |-> "none"]

NilData == [nil |-> TRUE, of |-> ""]

Template(pane) == IF pane.id = "todos" THEN "panes/todos.html"
                  ELSE "panes/calendar.html"

\* a bug: the layout map is not consulted
LayoutForNone(lay, paneID) == ZeroLayout

\* pr.layout[paneID]: the zero value when the map has no entry
LayoutFor(lay, paneID) ==
  IF paneID \in DOMAIN lay THEN lay[paneID] ELSE ZeroLayout

\* a bug: the data of a failed GetData is kept in the descriptor
DescriptorKeepData(pane, paneID, lay) ==
  [ID |-> pane.id, Title |-> pane.title,
   GridArea |-> LayoutFor(lay, paneID).GridArea,
   Data |-> GetData(pane).data,
   Template |-> Template(pane)]

\* the PaneData appended for one enabled pane
Descriptor(pane, paneID, lay) ==
  LET d == GetData(pane)
  IN  [ID |-> pane.id, Title |-> pane.title,
       GridArea |-> LayoutFor(lay, paneID).GridArea,
       Data |-> IF d.err # "none" THEN NilData ELSE d.data,
       Template |-> Template(pane)]

NilPane == [id |-> "", title |-> "", fails |-> FALSE]

\* pr.GetPane(id): (pane, exists)
GetPane(ps, id) ==
  IF id \in DOMAIN ps THEN [pane |-> ps[id], exists |-> TRUE]
  ELSE [pane |-> NilPane, exists |-> FALSE]

\* a bug: a missing pane fails the whole call
ResolveStrict(ids, ps, lay, acc) ==
  IF \E i \in 1..Len(ids) : ids[i] \notin DOMAIN ps
  THEN [data |-> <<>>, err |-> "pane not found"]
  ELSE [data |-> acc \o [i \in 1..Len(ids) |-> Descriptor(ps[ids[i]], ids[i], lay)],
        err |-> "none"]

\* the loop of GetEnabledPanes over the IDs still to visit
RECURSIVE Resolve(_, _, _, _)
Resolve(ids, ps, lay, acc) ==
  IF ids = <<>> THEN [data |-> acc, err |-> "none"]
  ELSE IF ids[1] \notin DOMAIN ps
       THEN Resolve(Tail(ids), ps, lay, acc)
       ELSE Resolve(Tail(ids), ps, lay,
                    Append(acc, Descriptor(ps[ids[1]], ids[1], lay)))

\* a bug: ranging over the registered panes instead of pr.enabled
RangeRegistered(en, order) ==
  SelectSeq(order, LAMBDA x : \E i \in 1..Len(en) : en[i] = x)

\* for _, paneID := range pr.enabled
RangeEnabled(en, order) == en

InitReg ==
  /\ panes = <<>>
  /\ enabled = <<>>
  /\ layout = <<>>
  /\ regOrder = <<>>
  /\ regLog = [panes |-> <<>>, layout |-> <<>>]
  /\ resolved = [data |-> <<>>, err |-> "none"]
  /\ fresh = FALSE

\* ------------------------------------------------- panes and pane factory
\* a bug: a registration for a name that has a constructor is ignored
MapSetIfAbsent(m, k, v) ==
  [x \in DOMAIN m \cup {k} |-> IF x \in DOMAIN m THEN m[x] ELSE v]

\* m[k] = v
MapSet(m, k, v) == [x \in DOMAIN m \cup {k} |-> IF x = k THEN v ELSE m[x]]

\* the orders a range over a map with these keys may visit them in
Orders(S) ==
  {f \in [1..Cardinality(S) -> S] : \A i, j \in DOMAIN f : f[i] = f[j] => i = j}

NoProvider == [kind |-> "nil", events |-> <<>>, emails |-> <<>>, fails |-> FALSE]

\* the data providers startup may hand to the factory: NullProvider,
\* MockProvider, and a provider whose calls return an error with its items
DataProviders ==
  { [kind |-> "null", events |-> <<>>, emails |-> <<>>, fails |-> FALSE],
    [kind |-> "mock", events |-> <<"1", "2", "3">>, emails |-> <<"1", "2">>,
     fails |-> FALSE],
    [kind |-> "failing", events |-> <<"1">>, emails |-> <<"1", "2">>,
     fails |-> TRUE] }

ProviderNames == {"primary", "backup"}

NoErr == [msg |-> "", arg |-> ""]

Errorf(msg, arg) == [msg |-> msg, arg |-> arg]

\* cp.provider.GetCalendarEvents()
GetCalendarEvents(provider) ==
  [items |-> provider.events,
   err |-> IF provider.fails THEN Errorf("provider failed", provider.kind) ELSE NoErr]

\* ep.provider.GetEmails()
GetEmails(provider) ==
  [items |-> provider.emails,
   err |-> IF provider.fails THEN Errorf("provider failed", provider.kind) ELSE NoErr]

\* the map[string]interface{} a pane returns: its item list and "Count"
Payload(items, count) == [nil |-> FALSE, items |-> items, count |-> count]

\* a bug: the items that came with the error are passed on, with count 0
CalendarGetDataPartial(provider) ==
  LET r == GetCalendarEvents(provider)
  IN  IF r.err # NoErr THEN [data |-> Payload(r.items, 0), err |-> r.err]
      ELSE [data |-> Payload(r.items, Len(r.items)), err |-> NoErr]

\* CalendarPane.GetData
CalendarGetData(provider) ==
  LET r == GetCalendarEvents(provider)
  IN  IF r.err # NoErr THEN [data |-> Payload(<<>>, 0), err |-> r.err]
      ELSE [data |-> Payload(r.items, Len(r.items)), err |-> NoErr]

\* EmailPane.GetData
EmailGetData(provider) ==
  LET r == GetEmails(provider)
  IN  IF r.err # NoErr THEN [data |-> Payload(<<>>, 0), err |-> r.err]
      ELSE [data |-> Payload(r.items, Len(r.items)), err |-> NoErr]

NoPane == [kind |-> "nil", provider |-> NoProvider]

\* a data-provider pane constructor applied to (provider, args)
ApplyDataProviderConstructor(ctor, provider) ==
  [kind |-> CASE ctor = "createCalendarPane" -> "calendar"
              [] ctor = "createEmailPane" -> "email"
              [] OTHER -> "custom",
   provider |-> provider]

\* a service pane constructor applied to args
ApplyServiceConstructor(ctor) ==
  [kind |-> IF ctor = "createTodoPane" THEN "todos" ELSE "custom",
   provider |-> NoProvider]

PaneConfig(type, provider) == [Type |-> type, Provider |-> provider]

\* pf.CreatePane(config): the (pane, error) pairs it may return; the default
\* provider is the first one a range over the provider map visits
CreatePaneResults(dpc, svc, reg, config) ==
  IF config.Type \in DOMAIN dpc
  THEN IF config.Provider # ""
       THEN IF config.Provider \notin DOMAIN reg
            THEN {[pane |-> NoPane,
                   err |-> Errorf("unknown data provider", config.Provider)]}
            ELSE {[pane |-> ApplyDataProviderConstructor(dpc[config.Type],
                                                         reg[config.Provider]),
                   err |-> NoErr]}
       ELSE IF DOMAIN reg = {}
            THEN {[pane |-> NoPane, err |-> Errorf("no data providers available", "")]}
            ELSE {[pane |-> ApplyDataProviderConstructor(dpc[config.Type], reg[n]),
                   err |-> NoErr] : n \in DOMAIN reg}
  ELSE IF config.Type \in DOMAIN svc
       THEN {[pane |-> ApplyServiceConstructor(svc[config.Type]), err |-> NoErr]}
       ELSE {[pane |-> NoPane, err |-> Errorf("unknown pane type", config.Type)]}

\* pf.GetAvailablePaneTypes(): the lists it may return
AvailablePaneTypes(dpc, svc) ==
  {a \o b : a \in Orders(DOMAIN dpc), b \in Orders(DOMAIN svc)}

NoRet == [op |-> "none", config |-> PaneConfig("", ""), pane |-> NoPane,
          err |-> NoErr, types |-> <<>>, before |-> <<>>, after |-> <<>>]

NoPayload == [called |-> FALSE, pane |-> NoPane, data |-> Payload(<<>>, 0),
              err |-> NoErr]

PaneReg(table, type, ctor) == [table |-> table, type |-> type, ctor |-> ctor]

\* NewPaneFactory: empty tables, then the built-in pane types
InitPaneFactory ==
  /\ dataProviderConstructors =
       MapSet(MapSet(<<>>, "calendar", "createCalendarPane"),
              "email", "createEmailPane")
  /\ serviceConstructors = MapSet(<<>>, "todos", "createTodoPane")
  /\ dataProviderRegistry = <<>>
  /\ paneRegs = << PaneReg("data", "calendar", "createCalendarPane"),
                   PaneReg("data", "email", "createEmailPane"),
                   PaneReg("service", "todos", "createTodoPane") >>
  /\ pfRet = NoRet
  /\ payload = NoPayload

\* ------------------------------------------------------ provider factory
NoProv == [kind |-> "nil", todoFile |-> ""]

ProviderConfig(type, args) == [Type |-> type, Args |-> args]

\* args of a provider configuration: none, a todo_file string, a todo_file
\* that is not a string
ProviderArgs ==
  { <<>>,
    [k \in {"todo_file"} |-> [type |-> "string", val |-> "x.json"]],
    [k \in {"todo_file"} |-> [type |-> "number", val |-> "7"]] }

\* pf.createMockProvider(args)
createMockProvider(args) ==
  [provider |-> [kind |-> "mock", todoFile |-> ""], err |-> NoErr]

\* pf.createNullProvider(args)
createNullProvider(args) ==
  [provider |-> [kind |-> "null", todoFile |-> ""], err |-> NoErr]

\* pf.createFileProvider(args)
createFileProvider(args) ==
  LET ok == "todo_file" \in DOMAIN args /\ args["todo_file"].type = "string"
      todoFilename == IF ok THEN args["todo_file"].val ELSE "data/todos.json"
  IN  [provider |-> [kind |-> "composite", todoFile |-> todoFilename],
       err |-> NoErr]

\* constructor(config.Args)
Construct(ctor, args) ==
  CASE ctor = "createMockProvider" -> createMockProvider(args)
    [] ctor = "createNullProvider" -> createNullProvider(args)
    [] ctor = "createFileProvider" -> createFileProvider(args)
    [] OTHER -> [provider |-> NoProv, err |-> Errorf("constructor failed", ctor)]

\* a bug: an unknown type falls back to the mock provider
CreateProviderDefault(ctors, config) ==
  IF config.Type \notin DOMAIN ctors
  THEN createMockProvider(config.Args)
  ELSE Construct(ctors[config.Type], config.Args)

\* pf.CreateProvider(config): (provider, error)
CreateProviderResult(ctors, config) ==
  IF config.Type \notin DOMAIN ctors
  THEN [provider |-> NoProv, err |-> Errorf("unknown provider type", config.Type)]
  ELSE Construct(ctors[config.Type], config.Args)

ProvReg(type, ctor) == [type |-> type, ctor |-> ctor]

NoProvRet == [op |-> "none", config |-> ProviderConfig("", <<>>),
              provider |-> NoProv, err |-> NoErr, types |-> <<>>]

\* the constructor table after these RegisterProvider calls
RECURSIVE Registered(_)
Registered(regs) ==
  IF regs = <<>> THEN <<>>
  ELSE MapSet(Registered(SubSeq(regs, 1, Len(regs) - 1)),
              regs[Len(regs)].type, regs[Len(regs)].ctor)

\* NewProviderFactory registers "file" and "null"
ProductionRegs == << ProvReg("file", "createFileProvider"),
                     ProvReg("null", "createNullProvider") >>

\* NewProviderFactoryWithMocks registers "mock" as well
MockRegs == Append(ProductionRegs, ProvReg("mock", "createMockProvider"))

\* the factory NewProviderFactory returns
InitProviderFactory ==
  /\ provRegs = ProductionRegs
  /\ constructors = Registered(provRegs)
  /\ provRet = NoProvRet

\* ------------------------------------------------------- todos endpoint
\* the messages a client may send; x201 stands for 201 ASCII characters and
\* e150 for 150 two-byte characters
Messages == {"", "buy milk", "x201", "e150"}

\* the characters of a message
CharLen(m) ==
  CASE m = "" -> 0 [] m = "buy milk" -> 8 [] m = "x201" -> 201 [] m = "e150" -> 150

\* len(req.Message): the bytes of its UTF-8 encoding
ByteLen(m) ==
  CASE m = "" -> 0 [] m = "buy milk" -> 8 [] m = "x201" -> 201 [] m = "e150" -> 300

\* json.NewDecoder(r.Body).Decode(&req) of a body that is no JSON at all
\* ("malformed"), a JSON object followed by other bytes ("trailing"), a message
\* that is not a string ("wrongtype"), an object without message, or
\* {"message": m}; it reads the first JSON value only
Decode(body) ==
  CASE body.form \in {"malformed", "wrongtype"} -> [err |-> TRUE, Message |-> ""]
    [] body.form = "nomessage" -> [err |-> FALSE, Message |-> ""]
    [] OTHER -> [err |-> FALSE, Message |-> body.message]

\* fmt.Sscanf(indexStr, "%d", &index): digits followed by other text parse
Sscanf(indexStr) ==
  IF indexStr.form \in {"number", "suffixed"}
  THEN [err |-> FALSE, index |-> indexStr.value]
  ELSE [err |-> TRUE, index |-> 0]

\* strconv.Atoi(indexStr)
Atoi(indexStr) ==
  IF indexStr.form = "number"
  THEN [err |-> FALSE, index |-> indexStr.value]
  ELSE [err |-> TRUE, index |-> 0]

\* what a handler leaves: the status it wrote and the store
Served(status, arrs, tds, f) ==
  [status |-> status, arrays |-> arrs, todos |-> tds, fs |-> f]

\* AddTodo of the store behind the pane; the later TodoService refuses ""
StoreAddTodo(dep, arrs, tds, f, message, out) ==
  IF dep.store = "v2" /\ message = ""
  THEN [err |-> "empty", arrays |-> arrs, todos |-> tds, fs |-> f]
  ELSE LET a == AppendSlice(arrs, tds, NewTodo(message))
           sv == save(Elems(a.arrays, a.slice), f, out)
           u == Refs({a.slice})
       IN  [err |-> sv.err, arrays |-> Sweep(a.arrays, u),
            todos |-> Move(a.slice, u), fs |-> sv.fs]

\* a bug: the list is saved before the index is checked
StoreToggleTodoSaving(dep, arrs, tds, f, index, out) ==
  LET inRange == index >= 0 /\ index < tds.len
      fl == IF inRange THEN FlipDone(arrs, tds, index) ELSE arrs
      sv == save(Elems(fl, tds), f, out)
  IN  [err |-> IF inRange \/ sv.err # "none" THEN sv.err
               ELSE IF dep.store = "v2" THEN "invalid todo index" ELSE "none",
       arrays |-> fl, todos |-> tds, fs |-> sv.fs]

\* ToggleTodo of the store behind the pane; an index out of range is nil in
\* the earlier TodoService and "invalid todo index" in the later one
StoreToggleTodo(dep, arrs, tds, f, index, out) ==
  IF index < 0 \/ index >= tds.len
  THEN [err |-> IF dep.store = "v2" THEN "invalid todo index" ELSE "none",
        arrays |-> arrs, todos |-> tds, fs |-> f]
  ELSE LET fl == FlipDone(arrs, tds, index)
           sv == save(Elems(fl, tds), f, out)
       IN  [err |-> sv.err, arrays |-> fl, todos |-> tds, fs |-> sv.fs]

\* Handler.handleAddTodo
Handler_handleAddTodo(dep, arrs, tds, f, req, out) ==
  LET d == Decode(req.body)
      r == StoreAddTodo(dep, arrs, tds, f, d.Message, out)
  IN  IF d.err THEN Served(400, arrs, tds, f)
      ELSE IF d.Message = "" THEN Served(400, arrs, tds, f)
      ELSE IF ByteLen(d.Message) > 200 THEN Served(400, arrs, tds, f)
      ELSE IF dep.pane # "todo" THEN Served(500, arrs, tds, f)
      ELSE IF r.err # "none" THEN Served(500, r.arrays, r.todos, r.fs)
      ELSE Served(201, r.arrays, r.todos, r.fs)

\* Handler.handleToggleTodo
Handler_handleToggleTodo(dep, arrs, tds, f, req, out) ==
  LET p == Sscanf(req.index)
      r == StoreToggleTodo(dep, arrs, tds, f, p.index, out)
  IN  IF req.index.form = "missing" THEN Served(400, arrs, tds, f)
      ELSE IF p.err THEN Served(400, arrs, tds, f)
      ELSE IF p.index < 0 THEN Served(400, arrs, tds, f)
      ELSE IF dep.pane # "todo" THEN Served(500, arrs, tds, f)
      ELSE IF r.err # "none" THEN Served(500, r.arrays, r.todos, r.fs)
      ELSE Served(200, r.arrays, r.todos, r.fs)

\* TodoPane.handleAddTodo, under handlePaneAPI (an error becomes 500)
TodoPane_handleAddTodo(dep, arrs, tds, f, req, out) ==
  LET d == Decode(req.body)
      r == StoreAddTodo(dep, arrs, tds, f, d.Message, out)
  IN  IF d.err THEN Served(400, arrs, tds, f)
      ELSE IF d.Message = "" THEN Served(400, arrs, tds, f)
      ELSE IF r.err # "none" THEN Served(500, r.arrays, r.todos, r.fs)
      ELSE Served(201, r.arrays, r.todos, r.fs)

\* TodoPane.handleToggleTodo, under handlePaneAPI (an error becomes 500)
TodoPane_handleToggleTodo(dep, arrs, tds, f, req, out) ==
  LET p == Atoi(req.index)
      r == StoreToggleTodo(dep, arrs, tds, f, p.index, out)
  IN  IF req.index.form = "missing" THEN Served(400, arrs, tds, f)
      ELSE IF p.err \/ p.index < 0 THEN Served(400, arrs, tds, f)
      ELSE IF r.err # "none" THEN Served(500, r.arrays, r.todos, r.fs)
      ELSE Served(200, r.arrays, r.todos, r.fs)

\* a bug: a verb the endpoint does not know is served as a GET
ServeTodosAnyVerb(dep, arrs, tds, f, req, out) ==
  IF dep.pane = "none" THEN Served(404, arrs, tds, f)
  ELSE Served(200, arrs, tds, f)

\* Handler.TodosAPI: directly (route "handler"), or through handlePaneAPI and
\* TodoPane.HandleAPI (route "pane")
ServeTodos(dep, arrs, tds, f, req, out) ==
  IF dep.pane = "none" THEN Served(404, arrs, tds, f)
  ELSE IF dep.route = "handler" \/ dep.pane = "todo"
  THEN CASE req.method = "GET" -> Served(200, arrs, tds, f)
         [] req.method = "POST" ->
              IF dep.route = "handler"
              THEN Handler_handleAddTodo(dep, arrs, tds, f, req, out)
              ELSE TodoPane_handleAddTodo(dep, arrs, tds, f, req, out)
         [] req.method = "PATCH" ->
              IF dep.route = "handler"
              THEN Handler_handleToggleTodo(dep, arrs, tds, f, req, out)
              ELSE TodoPane_handleToggleTodo(dep, arrs, tds, f, req, out)
         [] OTHER -> Served(405, arrs, tds, f)
  ELSE IF req.method = "GET" THEN Served(200, arrs, tds, f)
  ELSE Served(405, arrs, tds, f)

NoBody == [form |-> "malformed", message |-> ""]

NoIndex == [form |-> "missing", value |-> 0]

NoRequest == [method |-> "", body |-> NoBody, index |-> NoIndex]

NoResp == [req |-> NoRequest, status |-> 0, pre |-> <<>>, post |-> <<>>,
           out |-> "ok", wrote |-> FALSE]

InitHttp ==
  /\ deploy = [route |-> "handler", store |-> "v1", pane |-> "none"]
  /\ resp = NoResp

\* ------------------------------------------------------- Gmail provider
\* NewGmailProvider: no token, no services, authenticated false
NewGmailProvider ==
  [token |-> "nil", calendarSvc |-> FALSE, gmailSvc |-> FALSE,
   userInfo |-> FALSE, authenticated |-> FALSE]

\* a bug: a token is taken for a completed authorization
IsAuthenticatedByToken(g) == g.token = "valid"

\* g.IsAuthenticated(): authenticated && token != nil && token.Valid()
IsAuthenticated(g) ==
  g.authenticated /\ g.token # "nil" /\ g.token = "valid"

\* g.initializeServices(ctx, client): the calendar client, then the gmail
\* one; each field is assigned what NewService returned, nil with an error
initializeServices(g, made) ==
  CASE made = "none" -> [g |-> [g EXCEPT !.calendarSvc = FALSE], err |-> TRUE]
    [] made = "calendar" ->
         [g |-> [g EXCEPT !.calendarSvc = TRUE, !.gmailSvc = FALSE], err |-> TRUE]
    [] OTHER -> [g |-> [g EXCEPT !.calendarSvc = TRUE, !.gmailSvc = TRUE],
                 err |-> FALSE]

\* the provider after Authenticate or LoadToken got this token; a failed
\* fetchUserInfo is only logged
WithToken(g, token, made, profile) ==
  LET i == initializeServices([g EXCEPT !.token = token], made)
  IN  IF i.err THEN [g |-> i.g, err |-> TRUE]
      ELSE [g |-> [i.g EXCEPT !.userInfo = (@ \/ profile = "ok"),
                               !.authenticated = TRUE],
            err |-> FALSE]

\* g.Authenticate(ctx, code): nothing changes when the exchange fails
AuthenticateResult(g, exchange, made, profile) ==
  IF exchange = "fail" THEN [g |-> g, err |-> TRUE]
  ELSE WithToken(g, exchange, made, profile)

\* g.LoadToken(tokenSource): an expired token is refused
LoadTokenResult(g, source, made, profile) ==
  IF source \in {"fail", "expired"} THEN [g |-> g, err |-> TRUE]
  ELSE WithToken(g, source, made, profile)

\* MaxResults(10) of the message list call, MaxResults(20) of the event list
EmailMaxResults == 10
EventMaxResults == 20

\* what the account holds: whether the list call works, how many items it
\* has, and which of them fail when fetched (a message) or parsed (an event)
NoRemote == [list |-> "fail", count |-> 0, failing |-> {}]

\* the list call's Do(): the first maxResults items, in the remote order
Listed(remote, maxResults) ==
  [i \in 1..(IF remote.count < maxResults THEN remote.count ELSE maxResults) |->
     [id |-> i, ok |-> i \notin remote.failing]]

RECURSIVE FetchedUntilFailure(_)
\* a bug: the loop ends at the first item that fails
FetchedUntilFailure(items) ==
  IF items = <<>> \/ ~items[1].ok THEN <<>>
  ELSE <<items[1].id>> \o FetchedUntilFailure(Tail(items))

RECURSIVE Fetched(_)
\* the loop over the listed items: a failing item is logged and skipped
Fetched(items) ==
  IF items = <<>> THEN <<>>
  ELSE IF ~items[1].ok THEN Fetched(Tail(items))
  ELSE <<items[1].id>> \o Fetched(Tail(items))

\* g.GetCalendarEvents() / g.GetEmails(): (items, error, whether the remote
\* list call was made)
DataCall(g, remote, maxResults) ==
  IF ~IsAuthenticated(g)
  THEN [items |-> <<>>, err |-> "not authenticated", called |-> FALSE]
  ELSE IF remote.list = "fail"
  THEN [items |-> <<>>, err |-> "failed to fetch", called |-> TRUE]
  ELSE [items |-> Fetched(Listed(remote, maxResults)), err |-> "none",
        called |-> TRUE]

NoGmailHist ==
  [succeeded |-> FALSE, failedAuths |-> 0, dataCalls |-> 0, op |-> "none",
   err |-> "none", called |-> FALSE, before |-> FALSE, items |-> <<>>,
   remote |-> NoRemote]

InitGmail ==
  /\ gmail = NewGmailProvider
  /\ gmailHist = NoGmailHist

InitNull == nullCalls = <<>>

InitOrigin == origin = NoFile /\ ready = "ok"

FreeMutex == [writer |-> "none", readers |-> {}]

NoCaller == [at |-> "idle", op |-> "none", msg |-> "", idx |-> 0, path |-> "none"]

InitLock ==
  /\ mutex = FreeMutex
  /\ callers = [w \in Workers |-> NoCaller]

FileProviders == {"p1", "p2"}

NoShared == [made |-> FALSE, todoFile |-> "", slice |-> EmptySlice]

InitShared ==
  /\ shared = [p \in FileProviders |-> NoShared]
  /\ sharedHist = [added |-> <<>>, by |-> "none"]

InitSide == InitNull /\ InitOrigin /\ InitLock /\ InitShared

InitExt ==
  InitPaneFactory /\ InitProviderFactory /\ InitHttp /\ InitGmail /\ InitSide

NoPair == [on |-> FALSE, preTodos |-> <<>>, preFs |-> NoFile]

\* last is a toggle of a valid index that returned nil
ToggledOk(c, index) ==
  /\ c.op = "toggle" /\ c.err = "none" /\ c.idx = index
  /\ 0 <= index /\ index < Len(c.preTodos)

Init ==
  /\ fs \in InitFiles
  /\ arrays = <<>>
  /\ todos = EmptySlice
  /\ constructed = FALSE
  /\ loadErr = "none"
  /\ faults = 0
  /\ pure = FALSE
  /\ adds = <<>>
  /\ allOk = TRUE
  /\ last = NoCall
  /\ pair = NoPair
  /\ InitWorkers
  /\ InitReg
  /\ InitExt
  /\ serialList = <<>>
  /\ serialFs = NoFile
  /\ okAdds = {}
  /\ lastSave = "ok"

\* the I/O outcomes the environment may still produce
Outcomes(all) == IF faults < MaxFaults THEN all ELSE {"ok"}

Faulted(outs) == IF \E o \in outs : o # "ok" THEN 1 ELSE 0

\* NewTodoService(filename): the load error is dropped, the store returned
NewTodoService ==
  /\ ~constructed
  /\ \E mk \in Outcomes({"ok", "fail"}), rd \in Outcomes({"ok", "fail"}),
        wr \in Outcomes(WriteOutcomes) :
       \* the directory of an existing file exists; one fault per construction
       /\ fs.exists => mk = "ok" /\ wr = "ok"
       /\ ~fs.exists => rd = "ok"
       /\ mk # "ok" => wr = "ok"
       /\ LET l == load(fs, mk, rd, wr)
              s == SliceOf(<<>>, EmptySlice, l.todos)
              u == Refs({s.slice})
          IN  /\ fs' = l.fs
              /\ arrays' = Sweep(s.arrays, u)
              /\ todos' = Move(s.slice, u)
              /\ loadErr' = l.err
              /\ pure' = (l.todos = <<>>)
       /\ faults' = faults + Faulted({mk, rd, wr})
  /\ constructed' = TRUE
  /\ UNCHANGED <<adds, allOk, last, pair, concVars, restVars>>

\* s.AddTodo(message): append, then save; the append stays when save fails
AddTodo(message, out) ==
  LET a == AppendSlice(arrays, todos, NewTodo(message))
      s == save(Elems(a.arrays, a.slice), fs, out)
      u == Refs({a.slice})
  IN  /\ arrays' = Sweep(a.arrays, u)
      /\ todos' = Move(a.slice, u)
      /\ fs' = s.fs
      /\ faults' = faults + Faulted({out})
      /\ pure' = (pure /\ s.err = "none")
      /\ adds' = IF pure' THEN Append(adds, message) ELSE <<>>
      /\ allOk' = (allOk /\ s.err = "none")
      /\ last' = Call("add", message, 0, s.err)
      /\ pair' = NoPair
      /\ UNCHANGED <<constructed, loadErr, concVars, restVars>>

\* s.ToggleTodo(index): an index out of range returns nil and does nothing
ToggleTodo(index, out) ==
  IF index < 0 \/ index >= todos.len
  THEN /\ out = "ok"
       /\ last' = Call("toggle", "", index, "none")
       /\ pair' = NoPair
       /\ UNCHANGED <<storeVars, pure, adds, allOk, concVars, restVars>>
  ELSE LET arrs == FlipDone(arrays, todos, index)
           s == save(Elems(arrs, todos), fs, out)
       IN  /\ arrays' = arrs
           /\ fs' = s.fs
           /\ faults' = faults + Faulted({out})
           /\ pure' = FALSE
           /\ adds' = <<>>
           /\ allOk' = (allOk /\ s.err = "none")
           /\ last' = Call("toggle", "", index, s.err)
           /\ pair' = IF s.err = "none" /\ ToggledOk(last, index)
                      THEN [on |-> TRUE, preTodos |-> last.preTodos,
                            preFs |-> last.preFs]
                      ELSE NoPair
           /\ UNCHANGED <<todos, constructed, loadErr, concVars, restVars>>

Add ==
  /\ constructed
  /\ todos.len < MaxTodos
  /\ \E m \in Msgs, out \in Outcomes(WriteOutcomes) : AddTodo(m, out)

Toggle ==
  /\ constructed
  /\ \E i \in -1..MaxTodos, out \in Outcomes(WriteOutcomes) : ToggleTodo(i, out)

Next == NewTodoService \/ Add \/ Toggle

Spec == Init /\ [][Next]_vars

\* ------------------------------------------- several request workers
\* the message of worker w's next Add: every Add call has its own
WorkerMsgs == [w1 |-> <<"a", "c", "e">>, w2 |-> <<"b", "d", "f">>]

\* the lists the store holds when serving begins
InitLists == {<<>>, <<NewTodo("z")>>}

InitConc ==
  /\ \E l \in InitLists :
       LET s == SliceOf(<<>>, EmptySlice, l)
           u == Refs({s.slice})
       IN  /\ fs = FileOf(MarshalIndent(l))
           /\ arrays = Sweep(s.arrays, u)
           /\ todos = Move(s.slice, u)
           /\ serialList = l
           /\ serialFs = FileOf(MarshalIndent(l))
  /\ constructed = TRUE
  /\ loadErr = "none"
  /\ faults = 0
  /\ pure = FALSE
  /\ adds = <<>>
  /\ allOk = TRUE
  /\ last = NoCall
  /\ pair = NoPair
  /\ InitWorkers
  /\ InitReg
  /\ InitExt
  /\ okAdds = {}
  /\ lastSave = "ok"

\* a bug: the mutex is not taken (or is one per call)
CanLockUnguarded(w) == TRUE

\* s.mutex.Lock() returns: no other writer, no reader
CanLock(w) == wlock = {} /\ rlock = {}

\* s.mutex.RLock() returns: no writer
CanRLock(w) == wlock = {}

Goto(w, label) == pc' = [pc EXCEPT ![w] = label]

\* AddTodo: s.mutex.Lock()
AddLock(w) ==
  /\ pc[w] = "idle" /\ calls[w] < MaxCalls
  /\ CanLock(w)
  /\ wlock' = wlock \cup {w}
  /\ loc' = [loc EXCEPT ![w] = [NoLoc EXCEPT !.msg = WorkerMsgs[w][calls[w] + 1]]]
  /\ calls' = [calls EXCEPT ![w] = @ + 1]
  /\ Goto(w, "add_read")
  /\ UNCHANGED <<restVars, storeVars, histVars, rlock, held, seen,
                 serialList, serialFs, okAdds, lastSave>>

\* AddTodo: the s.todos read by append(s.todos, ...)
AddRead(w) ==
  /\ pc[w] = "add_read"
  /\ loc' = [loc EXCEPT ![w].sl = todos]
  /\ Goto(w, "add_write")
  /\ UNCHANGED <<restVars, storeVars, histVars, wlock, rlock, held, seen, calls,
                 serialList, serialFs, okAdds, lastSave>>

\* AddTodo: s.todos = append(...)
AddWrite(w) ==
  /\ pc[w] = "add_write"
  /\ LET a == AppendSlice(arrays, loc[w].sl, NewTodo(loc[w].msg))
     IN  arrays' = a.arrays /\ todos' = a.slice
  /\ Goto(w, "add_save")
  /\ UNCHANGED <<fs, constructed, loadErr, faults, restVars, histVars, wlock, rlock, loc,
                 held, seen, calls, serialList, serialFs, okAdds, lastSave>>

\* AddTodo: return s.save(); the history runs the whole call on serialList
AddSave(w) ==
  /\ pc[w] = "add_save"
  /\ \E out \in Outcomes(WriteOutcomes) :
       LET s == save(List, fs, out)
           l == Append(serialList, [done |-> FALSE, message |-> loc[w].msg])
       IN  /\ fs' = s.fs
           /\ loc' = [loc EXCEPT ![w].err = s.err]
           /\ faults' = faults + Faulted({out})
           /\ serialList' = l
           /\ serialFs' = WriteFile(serialFs, MarshalIndent(l), out)
           /\ lastSave' = out
  /\ Goto(w, "add_unlock")
  /\ UNCHANGED <<arrays, todos, constructed, loadErr, restVars, histVars, wlock, rlock,
                 held, seen, calls, okAdds>>

\* AddTodo: the deferred s.mutex.Unlock(), and the return
AddUnlock(w) ==
  /\ pc[w] = "add_unlock"
  /\ wlock' = wlock \ {w}
  /\ okAdds' = IF loc[w].err = "none" THEN okAdds \cup {loc[w].msg} ELSE okAdds
  /\ loc' = [loc EXCEPT ![w] = NoLoc]
  /\ Goto(w, "idle")
  /\ UNCHANGED <<restVars, storeVars, histVars, rlock, held, seen, calls,
                 serialList, serialFs, lastSave>>

\* ToggleTodo: s.mutex.Lock()
ToggleLock(w) ==
  /\ pc[w] = "idle" /\ calls[w] < MaxCalls
  /\ CanLock(w)
  /\ wlock' = wlock \cup {w}
  /\ \E i \in 0..1 : loc' = [loc EXCEPT ![w] = [NoLoc EXCEPT !.idx = i]]
  /\ calls' = [calls EXCEPT ![w] = @ + 1]
  /\ Goto(w, "tog_check")
  /\ UNCHANGED <<restVars, storeVars, histVars, rlock, held, seen,
                 serialList, serialFs, okAdds, lastSave>>

\* ToggleTodo: the range check; return nil when it fails
ToggleCheck(w) ==
  /\ pc[w] = "tog_check"
  /\ IF loc[w].idx < 0 \/ loc[w].idx >= todos.len
     THEN Goto(w, "tog_unlock")
     ELSE Goto(w, "tog_flip")
  /\ UNCHANGED <<restVars, storeVars, histVars, wlock, rlock, loc, held, seen, calls,
                 serialList, serialFs, okAdds, lastSave>>

\* ToggleTodo: s.todos[index].Done = !s.todos[index].Done
ToggleFlip(w) ==
  /\ pc[w] = "tog_flip"
  /\ arrays' = FlipDone(arrays, todos, loc[w].idx)
  /\ Goto(w, "tog_save")
  /\ UNCHANGED <<fs, todos, constructed, loadErr, faults, restVars, histVars, wlock, rlock,
                 loc, held, seen, calls, serialList, serialFs, okAdds, lastSave>>

\* ToggleTodo: return s.save()
ToggleSave(w) ==
  /\ pc[w] = "tog_save"
  /\ \E out \in Outcomes(WriteOutcomes) :
       LET s == save(List, fs, out)
           i == loc[w].idx + 1
           l == IF i <= Len(serialList)
                THEN [serialList EXCEPT ![i].done = ~@] ELSE serialList
       IN  /\ fs' = s.fs
           /\ loc' = [loc EXCEPT ![w].err = s.err]
           /\ faults' = faults + Faulted({out})
           /\ serialList' = l
           /\ serialFs' = WriteFile(serialFs, MarshalIndent(l), out)
           /\ lastSave' = out
  /\ Goto(w, "tog_unlock")
  /\ UNCHANGED <<arrays, todos, constructed, loadErr, restVars, histVars, wlock, rlock,
                 held, seen, calls, okAdds>>

\* ToggleTodo: the deferred s.mutex.Unlock(), and the return
ToggleUnlock(w) ==
  /\ pc[w] = "tog_unlock"
  /\ wlock' = wlock \ {w}
  /\ loc' = [loc EXCEPT ![w] = NoLoc]
  /\ Goto(w, "idle")
  /\ UNCHANGED <<restVars, storeVars, histVars, rlock, held, seen, calls,
                 serialList, serialFs, okAdds, lastSave>>

\* GetTodos: s.mutex.RLock()
GetRLock(w) ==
  /\ pc[w] = "idle" /\ calls[w] < MaxCalls
  /\ CanRLock(w)
  /\ rlock' = rlock \cup {w}
  /\ calls' = [calls EXCEPT ![w] = @ + 1]
  /\ Goto(w, "get_return")
  /\ UNCHANGED <<restVars, storeVars, histVars, wlock, loc, held, seen,
                 serialList, serialFs, okAdds, lastSave>>

\* GetTodos: return s.todos, and the deferred s.mutex.RUnlock()
GetReturn(w) ==
  /\ pc[w] = "get_return"
  /\ held' = [held EXCEPT ![w] = GetTodos]
  /\ seen' = [seen EXCEPT ![w] = List]
  /\ rlock' = rlock \ {w}
  /\ Goto(w, "encode")
  /\ UNCHANGED <<restVars, storeVars, histVars, wlock, loc, calls,
                 serialList, serialFs, okAdds, lastSave>>

\* TodoPane.GetData / HandleAPI: len(todos), json.NewEncoder(w).Encode(data)
\* read the items through the header, outside the lock
Encode(w) ==
  /\ pc[w] = "encode"
  /\ held' = [held EXCEPT ![w] = EmptySlice]
  /\ seen' = [seen EXCEPT ![w] = <<>>]
  /\ Goto(w, "idle")
  /\ UNCHANGED <<restVars, storeVars, histVars, wlock, rlock, loc, calls,
                 serialList, serialFs, okAdds, lastSave>>

NextConc ==
  \E w \in Workers :
    \/ AddLock(w) \/ AddRead(w) \/ AddWrite(w) \/ AddSave(w) \/ AddUnlock(w)
    \/ ToggleLock(w) \/ ToggleCheck(w) \/ ToggleFlip(w) \/ ToggleSave(w)
    \/ ToggleUnlock(w)
    \/ GetRLock(w) \/ GetReturn(w) \/ Encode(w)

SpecConc == InitConc /\ [][NextConc]_vars

\* ------------------------------------------------------- pane registry
UpTo(n) == UNION {[1..k -> EnabledIDs] : k \in 0..n}

InitRegistry ==
  /\ fs = NoFile
  /\ arrays = <<>>
  /\ todos = EmptySlice
  /\ constructed = FALSE
  /\ loadErr = "none"
  /\ faults = 0
  /\ pure = FALSE
  /\ adds = <<>>
  /\ allOk = TRUE
  /\ last = NoCall
  /\ pair = NoPair
  /\ InitWorkers
  /\ serialList = <<>>
  /\ serialFs = NoFile
  /\ okAdds = {}
  /\ lastSave = "ok"
  /\ InitReg
  /\ InitExt

\* the result of an earlier GetEnabledPanes is history once the registry changes
Stale == fresh' = FALSE /\ resolved' = [data |-> <<>>, err |-> "none"]

\* pr.panes[pane.ID()] = pane
RegisterPane(pane) ==
  /\ Len(regOrder) < MaxRegs
  /\ panes' = [x \in DOMAIN panes \cup {pane.id} |->
                 IF x = pane.id THEN pane ELSE panes[x]]
  /\ regOrder' = Append(regOrder, pane.id)
  /\ regLog' = [regLog EXCEPT !.panes = Append(@, pane)]
  /\ Stale
  /\ UNCHANGED <<enabled, layout, todoVars, extVars>>

\* pr.enabled = paneIDs
SetEnabledPanes(paneIDs) ==
  /\ enabled' = paneIDs
  /\ Stale
  /\ UNCHANGED <<panes, layout, regOrder, regLog, todoVars, extVars>>

\* pr.layout = layout
SetLayoutConfig(lay) ==
  /\ layout' = lay
  /\ regLog' = [regLog EXCEPT !.layout = lay]
  /\ Stale
  /\ UNCHANGED <<panes, enabled, regOrder, todoVars, extVars>>

\* pr.GetEnabledPanes(ctx)
GetEnabledPanes ==
  /\ resolved' = Resolve(RangeEnabled(enabled, regOrder), panes, layout, <<>>)
  /\ fresh' = TRUE
  /\ UNCHANGED <<panes, enabled, layout, regOrder, regLog, todoVars, extVars>>

NextReg ==
  \/ \E pane \in Panes : RegisterPane(pane)
  \/ \E ids \in UpTo(MaxEnabled) : SetEnabledPanes(ids)
  \/ \E lay \in Layouts : SetLayoutConfig(lay)
  \/ GetEnabledPanes

SpecReg == InitRegistry /\ [][NextReg]_vars

\* the enabled IDs that are registered, in the order of the enabled list
EnabledRegistered ==
  SelectSeq(enabled, LAMBDA x : x \in DOMAIN panes)

\* the pane the latest RegisterPane call for this ID got
LatestPane(id) ==
  LET at == {i \in DOMAIN regLog.panes : regLog.panes[i].id = id}
  IN  regLog.panes[CHOOSE i \in at : \A j \in at : j <= i]

\* C25: each descriptor of GetEnabledPanes carries the ID, title and template
\* of the pane most recently registered under its enabled ID, which is the
\* pane GetPane returns, and that ID's layout in the map most recently passed
\* to SetLayout, the zero layout when the map has no entry for it
C25_DescriptorIsLatest ==
  fresh =>
    \A i \in 1..Len(resolved.data) :
      LET x == EnabledRegistered[i]
          d == resolved.data[i]
          p == LatestPane(x)
      IN  /\ d.ID = x /\ d.ID = p.id
          /\ d.Title = p.title
          /\ d.Template = Template(p)
          /\ GetPane(panes, x) = [pane |-> p, exists |-> TRUE]
          /\ d.GridArea = IF x \in DOMAIN regLog.layout
                          THEN regLog.layout[x].GridArea ELSE ZeroLayout.GridArea

\* C25 happens: a descriptor of a pane registered twice under one ID with
\* two titles, with the layout of a map set after another map
C25_Witness ==
  /\ fresh /\ Len(resolved.data) >= 1
  /\ Len(regLog.panes) = 2
  /\ regLog.panes[1].id = regLog.panes[2].id
  /\ regLog.panes[1].title = "T2" /\ resolved.data[1].Title = "T"
  /\ resolved.data[1].GridArea = LayoutOf("2", "1").GridArea

\* the zero layout: an enabled pane the latest layout map has no entry for
C25_WitnessZero ==
  /\ fresh /\ Len(resolved.data) = 2
  /\ regLog.layout # <<>>
  /\ resolved.data[2].ID \notin DOMAIN regLog.layout
  /\ resolved.data[2].GridArea = ZeroLayout.GridArea

\* C9: GetEnabledPanes returns the descriptors in the order of the enabled
\* list, whatever the registration order: the i-th descriptor is that of the
\* i-th enabled ID that is registered
C9_EnabledOrder ==
  fresh =>
    /\ Len(resolved.data) = Len(EnabledRegistered)
    /\ \A i \in 1..Len(resolved.data) : resolved.data[i].ID = EnabledRegistered[i]

C9_Witness ==
  /\ fresh /\ Len(resolved.data) >= 2 /\ Len(regOrder) >= 2
  /\ regOrder[1] = resolved.data[2].ID /\ regOrder[2] = resolved.data[1].ID
  /\ regOrder[1] # regOrder[2]

\* C10: an enabled ID with no registered pane is skipped silently: no error,
\* and one descriptor per entry of the enabled list whose ID is registered
C10_MissingPaneSkipped ==
  fresh =>
    /\ resolved.err = "none"
    /\ Len(resolved.data) =
         Cardinality({i \in 1..Len(enabled) : enabled[i] \in DOMAIN panes})
    /\ (\A i \in 1..Len(enabled) : enabled[i] \notin DOMAIN panes) =>
         resolved.data = <<>>

C10_Witness ==
  /\ fresh /\ Len(resolved.data) >= 1
  /\ \E i \in 1..Len(enabled) : enabled[i] \notin DOMAIN panes

\* the registry had none of its panes fail
Healthy(ps) == [x \in DOMAIN ps |-> [ps[x] EXCEPT !.fails = FALSE]]

\* C11: when GetData of an enabled pane fails, GetEnabledPanes still returns
\* no error, that pane's descriptor is there with nil data, and the other
\* descriptors (data included) are those of a registry where no pane failed
C11_FailureIsolated ==
  fresh =>
    LET ok == Resolve(enabled, Healthy(panes), layout, <<>>).data
    IN  /\ resolved.err = "none"
        /\ Len(resolved.data) = Len(ok)
        /\ \A i \in 1..Len(resolved.data) :
             IF panes[resolved.data[i].ID].fails
             THEN /\ resolved.data[i].Data = NilData
                  /\ resolved.data[i] = [ok[i] EXCEPT !.Data = NilData]
             ELSE resolved.data[i] = ok[i]

C11_Witness ==
  /\ fresh /\ Len(resolved.data) >= 2
  /\ panes[resolved.data[1].ID].fails
  /\ ~panes[resolved.data[2].ID].fails
  /\ resolved.data[2].Data = [nil |-> FALSE, of |-> resolved.data[2].ID]

\* --------------------------------------------------------- pane factory
PaneTypeNames == {"todos", "weather"}

RequestedTypes == {"calendar", "email", "todos", "nonexistent-xyz"}

RequestedProviders == {"", "primary", "ghost"}

\* the state after NewPaneFactory
InitPanes ==
  /\ fs = NoFile
  /\ arrays = <<>>
  /\ todos = EmptySlice
  /\ constructed = FALSE
  /\ loadErr = "none"
  /\ faults = 0
  /\ pure = FALSE
  /\ adds = <<>>
  /\ allOk = TRUE
  /\ last = NoCall
  /\ pair = NoPair
  /\ InitWorkers
  /\ serialList = <<>>
  /\ serialFs = NoFile
  /\ okAdds = {}
  /\ lastSave = "ok"
  /\ InitReg
  /\ InitExt

\* earlier results are history once the factory changes
StalePanes == pfRet' = NoRet /\ payload' = NoPayload

Factory == <<dataProviderConstructors, serviceConstructors, dataProviderRegistry>>

\* pf.dataProviderConstructors[paneType] = constructor
RegisterDataProviderPaneType(paneType, constructor) ==
  /\ Len(paneRegs) < MaxPaneRegs
  /\ dataProviderConstructors' = MapSet(dataProviderConstructors, paneType, constructor)
  /\ paneRegs' = Append(paneRegs, PaneReg("data", paneType, constructor))
  /\ StalePanes
  /\ UNCHANGED <<serviceConstructors, dataProviderRegistry, pfOthers>>

\* pf.serviceConstructors[paneType] = constructor
RegisterServicePaneType(paneType, constructor) ==
  /\ Len(paneRegs) < MaxPaneRegs
  /\ serviceConstructors' = MapSet(serviceConstructors, paneType, constructor)
  /\ paneRegs' = Append(paneRegs, PaneReg("service", paneType, constructor))
  /\ StalePanes
  /\ UNCHANGED <<dataProviderConstructors, dataProviderRegistry, pfOthers>>

\* pf.dataProviderRegistry[name] = provider
RegisterDataProvider(name, provider) ==
  /\ dataProviderRegistry' = MapSet(dataProviderRegistry, name, provider)
  /\ StalePanes
  /\ UNCHANGED <<dataProviderConstructors, serviceConstructors, paneRegs,
                 pfOthers>>

\* pf.CreatePane(config)
CreatePane(config) ==
  /\ UNCHANGED <<dataProviderConstructors, serviceConstructors,
                 dataProviderRegistry, paneRegs, pfOthers>>
  /\ \E r \in CreatePaneResults(dataProviderConstructors, serviceConstructors,
                                 dataProviderRegistry, config) :
       pfRet' = [op |-> "create", config |-> config, pane |-> r.pane,
                 err |-> r.err, types |-> <<>>,
                 before |-> Factory, after |-> Factory']
  /\ payload' = NoPayload

\* pf.GetAvailablePaneTypes()
GetAvailablePaneTypes ==
  /\ \E ts \in AvailablePaneTypes(dataProviderConstructors, serviceConstructors) :
       pfRet' = [NoRet EXCEPT !.op = "types", !.types = ts]
  /\ payload' = NoPayload
  /\ UNCHANGED <<dataProviderConstructors, serviceConstructors,
                 dataProviderRegistry, paneRegs, pfOthers>>

\* GetData(ctx) of the calendar or email pane CreatePane returned
PaneGetData ==
  /\ pfRet.op = "create" /\ pfRet.err = NoErr
  /\ pfRet.pane.kind \in {"calendar", "email"}
  /\ LET r == IF pfRet.pane.kind = "calendar"
              THEN CalendarGetData(pfRet.pane.provider)
              ELSE EmailGetData(pfRet.pane.provider)
     IN  payload' = [called |-> TRUE, pane |-> pfRet.pane,
                     data |-> r.data, err |-> r.err]
  /\ UNCHANGED <<dataProviderConstructors, serviceConstructors,
                 dataProviderRegistry, paneRegs, pfRet, pfOthers>>

NextPanes ==
  \/ \E t \in PaneTypeNames : RegisterDataProviderPaneType(t, "customDataPane")
  \/ \E t \in PaneTypeNames : RegisterServicePaneType(t, "customServicePane")
  \/ \E n \in ProviderNames, pr \in DataProviders : RegisterDataProvider(n, pr)
  \/ \E t \in RequestedTypes, n \in RequestedProviders :
       CreatePane(PaneConfig(t, n))
  \/ GetAvailablePaneTypes
  \/ PaneGetData

SpecPanes == InitPanes /\ [][NextPanes]_vars

\* C12: GetData of the calendar and email panes always returns a payload,
\* never nil, whose count is the number of items it carries: the provider's
\* items on success; no items, count 0 and the provider's error on failure
C12_PayloadWellFormed ==
  payload.called =>
    LET prov == payload.pane.provider
        r == IF payload.pane.kind = "calendar" THEN GetCalendarEvents(prov)
             ELSE GetEmails(prov)
    IN  /\ ~payload.data.nil
        /\ payload.data.count = Len(payload.data.items)
        /\ r.err = NoErr => payload.data.items = r.items /\ payload.err = NoErr
        /\ r.err # NoErr =>
             /\ payload.data.items = <<>> /\ payload.data.count = 0
             /\ payload.err = r.err

C12_Witness ==
  /\ payload.called /\ payload.pane.kind = "calendar"
  /\ payload.pane.provider.fails /\ payload.pane.provider.events # <<>>
  /\ payload.err # NoErr

\* how often x occurs in the list xs
Occurrences(xs, x) == Cardinality({i \in 1..Len(xs) : xs[i] = x})

\* C15: each pane type name maps to exactly one constructor after any
\* sequence of RegisterDataProviderPaneType and RegisterServicePaneType calls,
\* and GetAvailablePaneTypes lists every registered type name exactly once
\* (three names for a fresh factory)
C15_OneConstructorPerPaneType ==
  LET names == {paneRegs[i].type : i \in 1..Len(paneRegs)}
  IN  /\ \A t \in names :
           Cardinality({tab \in {"data", "service"} :
              t \in (IF tab = "data" THEN DOMAIN dataProviderConstructors
                                      ELSE DOMAIN serviceConstructors)}) = 1
      /\ pfRet.op = "types" =>
           /\ \A t \in names : Occurrences(pfRet.types, t) = 1
           /\ Len(paneRegs) = 3 => Len(pfRet.types) = 3

\* C16: CreatePane returns an error and no pane, and leaves the factory as it
\* was, when the type is in neither constructor table, when the type is a
\* data-provider pane and the named provider is not registered, and when the
\* type is a data-provider pane, no provider is named and none is registered;
\* a service pane type is created without any provider
C16_CreatePaneErrors ==
  pfRet.op = "create" =>
    LET c == pfRet.config
        isData == c.Type \in DOMAIN dataProviderConstructors
        isService == c.Type \in DOMAIN serviceConstructors
        failed == /\ pfRet.pane = NoPane /\ pfRet.err # NoErr
                  /\ pfRet.after = pfRet.before
    IN  /\ ~isData /\ ~isService => failed
        /\ isData /\ c.Provider # "" /\ c.Provider \notin DOMAIN dataProviderRegistry
             => failed
        /\ isData /\ c.Provider = "" /\ DOMAIN dataProviderRegistry = {} => failed
        /\ isService => pfRet.err = NoErr /\ pfRet.pane # NoPane

\* ------------------------------------------------------ provider factory
ProviderTypes == {"null", "custom"}

CustomConstructors == {"createMockProvider", "customFailing"}

RequestedProviderTypes == {"file", "null", "mock", "custom", "nonexistent-xyz"}

\* no todo store has been constructed
IdleStore ==
  /\ fs = NoFile
  /\ arrays = <<>>
  /\ todos = EmptySlice
  /\ constructed = FALSE
  /\ loadErr = "none"
  /\ faults = 0
  /\ pure = FALSE
  /\ adds = <<>>
  /\ allOk = TRUE
  /\ last = NoCall
  /\ pair = NoPair
  /\ InitWorkers
  /\ serialList = <<>>
  /\ serialFs = NoFile
  /\ okAdds = {}
  /\ lastSave = "ok"

\* the state after NewProviderFactory or NewProviderFactoryWithMocks
InitProviders ==
  /\ IdleStore
  /\ InitReg
  /\ InitPaneFactory
  /\ InitHttp
  /\ InitGmail
  /\ InitSide
  /\ provRegs \in {ProductionRegs, MockRegs}
  /\ constructors = Registered(provRegs)
  /\ provRet = NoProvRet

\* pf.constructors[providerType] = constructor
RegisterProvider(providerType, constructor) ==
  /\ Len(provRegs) < MaxProvRegs
  /\ constructors' = MapSet(constructors, providerType, constructor)
  /\ provRegs' = Append(provRegs, ProvReg(providerType, constructor))
  /\ provRet' = NoProvRet
  /\ UNCHANGED provOthers

\* pf.CreateProvider(config)
CreateProvider(config) ==
  /\ LET r == CreateProviderResult(constructors, config)
     IN  provRet' = [op |-> "create", config |-> config,
                     provider |-> r.provider, err |-> r.err, types |-> <<>>]
  /\ UNCHANGED <<constructors, provRegs, provOthers>>

\* pf.GetAvailableProviders()
GetAvailableProviders ==
  /\ \E ts \in Orders(DOMAIN constructors) :
       provRet' = [NoProvRet EXCEPT !.op = "types", !.types = ts]
  /\ UNCHANGED <<constructors, provRegs, provOthers>>

NextProviders ==
  \/ \E t \in ProviderTypes, c \in CustomConstructors : RegisterProvider(t, c)
  \/ \E t \in RequestedProviderTypes, args \in ProviderArgs :
       CreateProvider(ProviderConfig(t, args))
  \/ GetAvailableProviders

SpecProviders == InitProviders /\ [][NextProviders]_vars

\* the names registered so far
RegisteredNames == {provRegs[i].type : i \in 1..Len(provRegs)}

\* the constructor of the latest registration for a name
LastRegistered(regs, t) ==
  LET is == {i \in 1..Len(regs) : regs[i].type = t}
  IN  regs[CHOOSE i \in is : \A j \in is : j <= i].ctor

\* C13: CreateProvider with a type that is not in the constructor table
\* returns no provider and an error naming the type; with a registered type
\* it returns what that type's constructor returns for the given args
C13_CreateProvider ==
  provRet.op = "create" =>
    LET t == provRet.config.Type
    IN  IF t \in RegisteredNames
        THEN [provider |-> provRet.provider, err |-> provRet.err] =
               Construct(LastRegistered(provRegs, t), provRet.config.Args)
        ELSE /\ provRet.provider = NoProv
             /\ provRet.err = Errorf("unknown provider type", t)

C13_Witness ==
  /\ provRet.op = "create" /\ provRet.config.Type = "nonexistent-xyz"
  /\ Len(provRegs) > 2

\* C14: RegisterProvider is an idempotent overwrite: each name maps to the
\* constructor registered last for it, registering the same (type,
\* constructor) twice equals registering it once, and GetAvailableProviders
\* returns exactly the names registered so far
C14_RegisterOverwrites ==
  /\ DOMAIN constructors = RegisteredNames
  /\ \A t \in RegisteredNames : constructors[t] = LastRegistered(provRegs, t)
  /\ LET n == Len(provRegs)
     IN  n >= 2 /\ provRegs[n] = provRegs[n - 1] =>
           constructors = Registered(SubSeq(provRegs, 1, n - 1))
  /\ provRet.op = "types" =>
       /\ {provRet.types[i] : i \in 1..Len(provRet.types)} = RegisteredNames
       /\ Len(provRet.types) = Cardinality(RegisteredNames)

C14_Witness ==
  /\ Len(provRegs) >= 4
  /\ provRegs[3].type = provRegs[4].type /\ provRegs[3].ctor # provRegs[4].ctor
  /\ provRet.op = "types"

\* ------------------------------------------------------- todos endpoint
\* the builds: TodosAPI itself or handlePaneAPI with TodoPane.HandleAPI, the
\* earlier or the later TodoService, and what is registered as "todos"
Deployments ==
  [route : {"handler", "pane"}, store : {"v1", "v2"},
   pane : {"none", "todo", "other"}]

Bodies ==
  {[form |-> fm, message |-> ""] : fm \in {"malformed", "wrongtype", "nomessage"}}
    \cup {[form |-> "object", message |-> m] : m \in Messages}
    \cup {[form |-> "trailing", message |-> "buy milk"]}

Indexes ==
  {NoIndex, [form |-> "garbage", value |-> 0], [form |-> "suffixed", value |-> 0]}
    \cup {[form |-> "number", value |-> i] : i \in -1..MaxHttpTodos}

Requests ==
  {[NoRequest EXCEPT !.method = v] : v \in {"GET", "DELETE", "PUT"}}
    \cup {[NoRequest EXCEPT !.method = "POST", !.body = b] : b \in Bodies}
    \cup {[NoRequest EXCEPT !.method = "PATCH", !.index = i] : i \in Indexes}

\* a server whose store was constructed over no file
InitTodosAPI ==
  /\ fs = FileOf(MarshalIndent(<<>>))
  /\ arrays = <<>>
  /\ todos = EmptySlice
  /\ constructed = TRUE
  /\ loadErr = "none"
  /\ faults = 0
  /\ pure = FALSE
  /\ adds = <<>>
  /\ allOk = TRUE
  /\ last = NoCall
  /\ pair = NoPair
  /\ InitWorkers
  /\ serialList = <<>>
  /\ serialFs = NoFile
  /\ okAdds = {}
  /\ lastSave = "ok"
  /\ InitReg
  /\ InitPaneFactory
  /\ InitProviderFactory
  /\ InitGmail
  /\ InitSide
  /\ deploy \in Deployments
  /\ resp = NoResp

\* one request to /api/todos, served to its response
TodosAPI(req, out) ==
  LET r == ServeTodos(deploy, arrays, todos, fs, req, out)
      quiet == ServeTodos(deploy, arrays, todos, fs, req, "ok")
  IN  /\ req.method = "POST" => todos.len < MaxHttpTodos
      /\ out # "ok" => r # quiet
      /\ arrays' = r.arrays
      /\ todos' = r.todos
      /\ fs' = r.fs
      /\ faults' = faults + Faulted({out})
      /\ resp' = [req |-> req, status |-> r.status, pre |-> List,
                  post |-> Elems(r.arrays, r.todos), out |-> out,
                  wrote |-> (r.fs # fs)]
      /\ UNCHANGED <<constructed, loadErr, histVars, concVars, regVars, pfVars,
                     provVars, gmailVars, sideVars, deploy>>

NextTodosAPI ==
  \E req \in Requests, out \in Outcomes(WriteOutcomes) : TodosAPI(req, out)

SpecTodosAPI == InitTodosAPI /\ [][NextTodosAPI]_vars

\* the request was a PATCH whose index parsed to a number outside the list
OutOfRange ==
  /\ resp.req.method = "PATCH" /\ resp.req.index.form = "number"
  /\ resp.req.index.value < 0 \/ resp.req.index.value >= Len(resp.pre)

\* C17: with the todos pane registered, a PATCH whose index is out of range
\* (negative, or at least the length of the list) is answered with a 4xx
\* status, never 200 and never 5xx, and leaves the list unchanged
C17_OutOfRangeIsClientError ==
  deploy.pane = "todo" /\ OutOfRange =>
    /\ resp.status >= 400 /\ resp.status <= 499
    /\ resp.post = resp.pre

\* C18: with the todos pane registered and the store writable, a POST whose
\* body is malformed JSON, has an empty message or a message of more than 200
\* characters is answered with 400 and the list is unchanged; any other body
\* appends exactly one item {done: false, message} and is answered with 201;
\* so every stored todo has a non-empty message of at most 200 characters
C18_PostValidated ==
  /\ deploy.pane = "todo" /\ resp.req.method = "POST" /\ resp.out = "ok"
       /\ resp.req.body.form \in {"malformed", "nomessage", "object"} =>
       LET m == resp.req.body.message
       IN  IF resp.req.body.form = "malformed" \/ m = "" \/ CharLen(m) > 200
           THEN resp.status = 400 /\ resp.post = resp.pre
           ELSE resp.status = 201 /\ resp.post = Append(resp.pre, NewTodo(m))
  /\ \A i \in 1..Len(List) :
       List[i].message # "" /\ CharLen(List[i].message) <= 200

\* C19: with a todos pane registered, a request whose verb is not GET, POST
\* or PATCH is answered with 405 and changes nothing; with no todos pane
\* registered every request is answered with 404 and changes nothing
C19_Routing ==
  resp.status # 0 =>
    /\ deploy.pane # "none" /\ resp.req.method \notin {"GET", "POST", "PATCH"} =>
         resp.status = 405 /\ resp.post = resp.pre /\ ~resp.wrote
    /\ deploy.pane = "none" =>
         resp.status = 404 /\ resp.post = resp.pre /\ ~resp.wrote

C19_Witness ==
  /\ deploy.pane = "todo" /\ resp.req.method = "DELETE" /\ resp.status = 405
  /\ Len(List) >= 1

\* ------------------------------------------------------- null provider
MaxNullCalls == 3

\* NewNullProvider(): a struct without fields
NewNullProvider ==
  [kind |-> "null", events |-> <<>>, emails |-> <<>>, fails |-> FALSE]

RECURSIVE AddedTodos(_)
\* the todos of the AddTodo calls among these, in call order
AddedTodos(served) ==
  IF served = <<>> THEN <<>>
  ELSE LET c == served[Len(served)]
           front == AddedTodos(SubSeq(served, 1, Len(served) - 1))
       IN  IF c.op = "add" THEN Append(front, NewTodo(c.msg)) ELSE front

\* a bug: the provider keeps the todos it was given
NullProvider_GetTodosStored(served) == AddedTodos(served)

\* np.GetTodos(): []models.Todo{}, whatever the provider served before
NullProvider_GetTodos(served) == <<>>

\* np.AddTodo(message): a no-op that returns nil
NullProvider_AddTodo(message) == NoErr

\* np.ToggleTodo(index): a no-op that returns nil
NullProvider_ToggleTodo(index) == NoErr

NullCall(op, msg, idx, items, err) ==
  [op |-> op, msg |-> msg, idx |-> idx, items |-> items, err |-> err]

nullOthers == <<storeVars, histVars, concVars, regVars, pfVars, provVars,
                httpVars, gmailVars, originVars, lockVars, sharedVars>>

InitNullProvider ==
  /\ IdleStore
  /\ InitReg
  /\ InitExt

NullServed(c) ==
  /\ Len(nullCalls) < MaxNullCalls
  /\ nullCalls' = Append(nullCalls, c)
  /\ UNCHANGED nullOthers

NullGetCalendarEvents ==
  LET r == GetCalendarEvents(NewNullProvider)
  IN  NullServed(NullCall("events", "", 0, r.items, r.err))

NullGetEmails ==
  LET r == GetEmails(NewNullProvider)
  IN  NullServed(NullCall("emails", "", 0, r.items, r.err))

NullGetTodos ==
  NullServed(NullCall("todos", "", 0, NullProvider_GetTodos(nullCalls), NoErr))

NullAddTodo ==
  \E m \in {"", "buy milk"} :
    NullServed(NullCall("add", m, 0, <<>>, NullProvider_AddTodo(m)))

NullToggleTodo ==
  \E i \in -1..1 :
    NullServed(NullCall("toggle", "", i, <<>>, NullProvider_ToggleTodo(i)))

NextNull ==
  \/ NullGetCalendarEvents
  \/ NullGetEmails
  \/ NullGetTodos
  \/ NullAddTodo
  \/ NullToggleTodo

SpecNull == InitNullProvider /\ [][NextNull]_vars

\* C21: every call a NullProvider served returned no error, and every
\* GetCalendarEvents, GetEmails and GetTodos among them returned an empty
\* list, whatever AddTodo and ToggleTodo calls came before it
C21_NullProviderEmpty ==
  \A i \in DOMAIN nullCalls :
    /\ nullCalls[i].err = NoErr
    /\ nullCalls[i].op \in {"events", "emails", "todos"} => nullCalls[i].items = <<>>

\* C21 happens: GetTodos, GetCalendarEvents or GetEmails after an AddTodo and
\* a ToggleTodo
C21_Witness ==
  /\ Len(nullCalls) = 3
  /\ nullCalls[1].op = "add" /\ nullCalls[1].msg = "buy milk"
  /\ nullCalls[2].op = "toggle" /\ nullCalls[2].idx = 0
  /\ nullCalls[3].op = "todos"

\* ------------------------------------------------------- Gmail provider
InitGmailProvider ==
  /\ IdleStore
  /\ InitReg
  /\ InitPaneFactory
  /\ InitProviderFactory
  /\ InitHttp
  /\ InitGmail
  /\ InitSide

\* the counters of the history stop at the bound
Counted(n) == IF n < MaxDataCalls THEN n + 1 ELSE n

Authenticated(op, r) ==
  /\ gmail' = r.g
  /\ gmailHist' = [gmailHist EXCEPT
                     !.succeeded = (@ \/ ~r.err),
                     !.failedAuths = IF r.err THEN Counted(@) ELSE @,
                     !.op = op, !.err = IF r.err THEN "failed" ELSE "none",
                     !.called = FALSE, !.before = FALSE, !.items = <<>>,
                     !.remote = NoRemote]

\* g.Authenticate(ctx, code)
Authenticate ==
  /\ \E exchange \in {"fail", "valid", "expired"},
        made \in {"none", "calendar", "both"}, profile \in {"ok", "fail"} :
       Authenticated("authenticate",
                     AuthenticateResult(gmail, exchange, made, profile))
  /\ UNCHANGED <<storeVars, histVars, concVars, regVars, pfVars, provVars,
                 httpVars, sideVars>>

\* g.LoadToken(tokenSource)
LoadToken ==
  /\ \E source \in {"fail", "valid", "expired"},
        made \in {"none", "calendar", "both"}, profile \in {"ok", "fail"} :
       Authenticated("load", LoadTokenResult(gmail, source, made, profile))
  /\ UNCHANGED <<storeVars, histVars, concVars, regVars, pfVars, provVars,
                 httpVars, sideVars>>

\* time passes: the token reaches its expiry
TokenExpires ==
  /\ gmail.token = "valid"
  /\ gmail' = [gmail EXCEPT !.token = "expired"]
  /\ UNCHANGED <<gmailHist, storeVars, histVars, concVars, regVars, pfVars,
                 provVars, httpVars, sideVars>>

\* the accounts: a list call that fails, and mailboxes or calendars of up to
\* MaxRemote items (fewer than, as many as and more than the list calls ask
\* for) of which some of the items at FailAt fail
MaxRemote == 21

RemoteCounts == {0, 2, 10, 11, 20, MaxRemote}

FailAt == {1, 2, 10, 20}

Remotes ==
  {NoRemote} \cup
  {[list |-> "ok", count |-> n, failing |-> f] :
     n \in RemoteCounts, f \in SUBSET FailAt}

DataCalled(op, remote, r) ==
  /\ gmailHist.dataCalls < MaxDataCalls
  /\ remote.failing \subseteq 1..remote.count
  /\ gmailHist' = [gmailHist EXCEPT
                     !.dataCalls = @ + 1, !.op = op, !.err = r.err,
                     !.called = r.called, !.before = ~gmailHist.succeeded,
                     !.items = r.items,
                     !.remote = IF r.called THEN remote ELSE NoRemote]
  /\ UNCHANGED <<gmail, storeVars, histVars, concVars, regVars, pfVars,
                 provVars, httpVars, sideVars>>

\* g.GetCalendarEvents()
GmailGetCalendarEvents ==
  \E remote \in Remotes :
    DataCalled("events", remote, DataCall(gmail, remote, EventMaxResults))

\* g.GetEmails()
GmailGetEmails ==
  \E remote \in Remotes :
    DataCalled("emails", remote, DataCall(gmail, remote, EmailMaxResults))

NextGmail ==
  \/ Authenticate
  \/ LoadToken
  \/ TokenExpires
  \/ GmailGetCalendarEvents
  \/ GmailGetEmails

SpecGmail == InitGmailProvider /\ [][NextGmail]_vars

Fetchable(cap) ==
  {i \in 1..gmailHist.remote.count : i <= cap /\ i \notin gmailHist.remote.failing}

C28_AuthenticatedHasServices ==
  IsAuthenticated(gmail) => gmail.calendarSvc /\ gmail.gmailSvc

\* CreatePane for a data-provider pane type, without a provider name,
\* returned ret
DefaultCreated(ret) ==
  /\ ret.op = "create" /\ ret.err = NoErr
  /\ ret.config.Provider = ""
  /\ ret.config.Type \in DOMAIN ret.before[1]

\* C29: two CreatePane calls in a row for the same data-provider pane type
\* without a provider name, over the same registered providers, return panes
\* bound to the same provider
C29_DefaultProviderDeterministic ==
  [][DefaultCreated(pfRet) /\ DefaultCreated(pfRet')
       /\ pfRet'.config = pfRet.config /\ pfRet'.before = pfRet.after
       => pfRet'.pane = pfRet.pane]_vars

\* ------------------------------------- the stores, variant by variant
MaxStoreTodos == 2

StoreMsgs == {"", "buy milk"}

\* the silent stores (the first TodoService, TodoFileProvider) and the strict
\* TodoService
StoreBuilds == {[route |-> "pane", store |-> v, pane |-> "todo"] : v \in {"v1", "v2"}}

InitStore ==
  /\ fs \in InitFiles
  /\ arrays = <<>>
  /\ todos = EmptySlice
  /\ constructed = FALSE
  /\ loadErr = "none"
  /\ faults = 0
  /\ pure = FALSE
  /\ adds = <<>>
  /\ allOk = TRUE
  /\ last = NoCall
  /\ pair = NoPair
  /\ InitWorkers
  /\ serialList = <<>>
  /\ serialFs = NoFile
  /\ okAdds = {}
  /\ lastSave = "ok"
  /\ InitReg
  /\ InitPaneFactory
  /\ InitProviderFactory
  /\ InitGmail
  /\ InitNull
  /\ InitLock
  /\ InitShared
  /\ deploy \in StoreBuilds
  /\ resp = NoResp
  /\ origin = fs
  /\ ready = "ok"

storeOthers == <<constructed, loadErr, pure, adds, allOk, pair, concVars,
                 regVars, pfVars, provVars, httpVars, gmailVars, nullVars,
                 lockVars, sharedVars, origin>>

StoreCalled(op, msg, idx, r, out) ==
  /\ arrays' = r.arrays
  /\ todos' = r.todos
  /\ fs' = r.fs
  /\ faults' = faults + Faulted({out})
  /\ last' = Call(op, msg, idx, r.err)
  /\ ready' = out
  /\ UNCHANGED storeOthers

\* AddTodo(message) of the store of this build
StoreAdd ==
  /\ constructed
  /\ todos.len < MaxStoreTodos
  /\ \E m \in StoreMsgs, out \in Outcomes(WriteOutcomes) :
       StoreCalled("add", m, 0, StoreAddTodo(deploy, arrays, todos, fs, m, out), out)

\* ToggleTodo(index) of the store of this build
StoreToggle ==
  /\ constructed
  /\ \E i \in -1..MaxStoreTodos, out \in Outcomes(WriteOutcomes) :
       StoreCalled("toggle", "", i,
                   StoreToggleTodo(deploy, arrays, todos, fs, i, out), out)

NextStore == NewTodoService \/ StoreAdd \/ StoreToggle

SpecStore == InitStore /\ [][NextStore]_vars

\* C23: a Toggle with an index outside [0, len) leaves the list and the file
\* as they were, whatever a write would have done to the file; it returns
\* nil in the silent stores and "invalid todo index" in the strict one
C23_OutOfRangeToggleIsNoop ==
  last.op = "toggle" /\ (last.idx < 0 \/ last.idx >= Len(last.preTodos)) =>
    /\ List = last.preTodos
    /\ fs = last.preFs
    /\ last.err = IF deploy.store = "v2" THEN "invalid todo index" ELSE "none"

\* C23 happens in the silent variant: index len of a non-empty list, while a
\* write would have failed and emptied the file
C23_Witness ==
  /\ last.op = "toggle" /\ last.idx = Len(last.preTodos) /\ last.idx > 0
  /\ ready = "ewrite" /\ fs.exists /\ deploy.store = "v1"

\* the strict variant refuses index -1, while a write would have failed
C23_WitnessStrict ==
  /\ last.op = "toggle" /\ last.idx = -1 /\ Len(List) > 0
  /\ ready = "eopen" /\ deploy.store = "v2" /\ last.err = "invalid todo index"

\* last is a successful Add("buy milk") to the store as construction over
\* no file should have left it
FirstAddDone ==
  /\ last.op = "add" /\ last.msg = "buy milk" /\ last.err = "none"
  /\ last.preTodos = <<>> /\ last.preFs = FileOf(MarshalIndent(<<>>))

\* C24: a store constructed over no file has, before any mutation, an empty
\* list and a file holding the serialised empty list; after a following
\* Add("buy milk") List and a store reopened from the file return
\* [{done:false,"buy milk"}]
C24_AbsentFileScenario ==
  constructed /\ origin = NoFile =>
    /\ last = NoCall => List = <<>> /\ fs = FileOf(MarshalIndent(<<>>))
    /\ FirstAddDone => /\ List = <<NewTodo("buy milk")>>
                       /\ Reopen(fs) = <<NewTodo("buy milk")>>

\* the scenario of C24 holds whenever no I/O call has failed
C24_HoldsWithoutFaults == faults = 0 => C24_AbsentFileScenario

\* the scenario of C24 is run to its end without a fault
C24_ScenarioRun ==
  constructed /\ origin = NoFile /\ faults = 0 /\ FirstAddDone

\* ------------------------------------- calls that wait for the mutex
MaxLiveTodos == 1

\* a bug: the method returns without the deferred Unlock
UnlockSkipped(mx, w) == mx

\* s.mutex.Unlock()
Unlock(mx, w) == [mx EXCEPT !.writer = "none"]

\* s.mutex.RUnlock()
RUnlock(mx, w) == [mx EXCEPT !.readers = @ \ {w}]

\* the callers blocked in s.mutex.Lock()
WaitingWriters == {w \in Workers : callers[w].at = "lock"}

\* s.mutex.Lock() can return: no writer and no reader holds the mutex
LockReturns(mx) == mx.writer = "none" /\ mx.readers = {}

\* s.mutex.RLock() can return: no writer holds the mutex and none waits for
\* it (a blocked Lock keeps new readers out)
RLockReturns(mx) == mx.writer = "none" /\ WaitingWriters = {}

\* a store constructed over no file, of either variant, nobody calling
InitLive ==
  /\ fs = FileOf(MarshalIndent(<<>>))
  /\ arrays = <<>>
  /\ todos = EmptySlice
  /\ constructed = TRUE
  /\ loadErr = "none"
  /\ faults = 0
  /\ pure = FALSE
  /\ adds = <<>>
  /\ allOk = TRUE
  /\ last = NoCall
  /\ pair = NoPair
  /\ InitWorkers
  /\ serialList = <<>>
  /\ serialFs = NoFile
  /\ okAdds = {}
  /\ lastSave = "ok"
  /\ InitReg
  /\ InitPaneFactory
  /\ InitProviderFactory
  /\ InitGmail
  /\ InitNull
  /\ InitOrigin
  /\ InitLock
  /\ InitShared
  /\ deploy \in StoreBuilds
  /\ resp = NoResp

liveOthers == <<constructed, loadErr, histVars, concVars, regVars, pfVars,
                provVars, httpVars, gmailVars, nullVars, originVars,
                sharedVars>>

At(w, at) == callers' = [callers EXCEPT ![w].at = at]

\* the Adds called and not yet appended
PendingAdds ==
  {w \in Workers : callers[w].op = "add" /\ callers[w].at \in {"lock", "body"}}

\* a caller calls AddTodo(message): the strict store returns at once for ""
CallAdd(w, m) ==
  /\ callers[w].at = "idle"
  /\ todos.len + Cardinality(PendingAdds) < MaxLiveTodos
  /\ IF deploy.store = "v2" /\ m = ""
     THEN callers' = [callers EXCEPT ![w] = [NoCaller EXCEPT !.path = "empty"]]
     ELSE callers' = [callers EXCEPT ![w] =
                        [NoCaller EXCEPT !.at = "lock", !.op = "add", !.msg = m]]
  /\ UNCHANGED <<storeVars, mutex, liveOthers>>

\* a caller calls ToggleTodo(index)
CallToggle(w, i) ==
  /\ callers[w].at = "idle"
  /\ callers' = [callers EXCEPT ![w] =
                   [NoCaller EXCEPT !.at = "lock", !.op = "toggle", !.idx = i]]
  /\ UNCHANGED <<storeVars, mutex, liveOthers>>

\* a caller calls GetTodos()
CallGetTodos(w) ==
  /\ callers[w].at = "idle"
  /\ callers' = [callers EXCEPT ![w] =
                   [NoCaller EXCEPT !.at = "rlock", !.op = "list"]]
  /\ UNCHANGED <<storeVars, mutex, liveOthers>>

\* s.mutex.Lock() returns
LockTaken(w) ==
  /\ callers[w].at = "lock"
  /\ LockReturns(mutex)
  /\ mutex' = [mutex EXCEPT !.writer = w]
  /\ At(w, "body")
  /\ UNCHANGED <<storeVars, liveOthers>>

\* s.mutex.RLock() returns
RLockTaken(w) ==
  /\ callers[w].at = "rlock"
  /\ RLockReturns(mutex)
  /\ mutex' = [mutex EXCEPT !.readers = @ \cup {w}]
  /\ At(w, "rbody")
  /\ UNCHANGED <<storeVars, liveOthers>>

\* the body of AddTodo or ToggleTodo, up to its return statement
WriterBody(w) ==
  /\ callers[w].at = "body"
  /\ \E out \in Outcomes(WriteOutcomes) :
       LET c == callers[w]
           r == IF c.op = "add"
                THEN StoreAddTodo(deploy, arrays, todos, fs, c.msg, out)
                ELSE StoreToggleTodo(deploy, arrays, todos, fs, c.idx, out)
           range == c.op = "toggle" /\ (c.idx < 0 \/ c.idx >= todos.len)
       IN  /\ out # "ok" => ~range
           /\ arrays' = r.arrays
           /\ todos' = r.todos
           /\ fs' = r.fs
           /\ faults' = faults + Faulted({out})
           /\ callers' = [callers EXCEPT ![w] =
                            [NoCaller EXCEPT
                               !.at = "unlock",
                               !.path = IF range THEN "range"
                                        ELSE IF r.err # "none" THEN "persist"
                                        ELSE "ok"]]
  /\ UNCHANGED <<constructed, loadErr, mutex, liveOthers>>

\* the body of GetTodos: return s.todos
ReaderBody(w) ==
  /\ callers[w].at = "rbody"
  /\ callers' = [callers EXCEPT ![w] =
                   [NoCaller EXCEPT !.at = "runlock", !.path = "ok"]]
  /\ UNCHANGED <<storeVars, mutex, liveOthers>>

\* the deferred s.mutex.Unlock() runs and the call returns
Unlocked(w) ==
  /\ callers[w].at = "unlock"
  /\ mutex' = Unlock(mutex, w)
  /\ At(w, "idle")
  /\ UNCHANGED <<storeVars, liveOthers>>

\* the deferred s.mutex.RUnlock() runs and the call returns
RUnlocked(w) ==
  /\ callers[w].at = "runlock"
  /\ mutex' = RUnlock(mutex, w)
  /\ At(w, "idle")
  /\ UNCHANGED <<storeVars, liveOthers>>

NextLive ==
  \E w \in Workers :
    \/ \E m \in StoreMsgs : CallAdd(w, m)
    \/ \E i \in {-1, 0} : CallToggle(w, i)
    \/ CallGetTodos(w)
    \/ LockTaken(w)
    \/ RLockTaken(w)
    \/ WriterBody(w)
    \/ ReaderBody(w)
    \/ Unlocked(w)
    \/ RUnlocked(w)

SpecLive == InitLive /\ [][NextLive]_vars

\* the scheduler runs every goroutine that can run; the mutex hands itself
\* to a caller that keeps waiting for it
Fairness ==
  \A w \in Workers :
    /\ WF_vars(WriterBody(w)) /\ WF_vars(ReaderBody(w))
    /\ WF_vars(Unlocked(w)) /\ WF_vars(RUnlocked(w))
    /\ SF_vars(LockTaken(w)) /\ SF_vars(RLockTaken(w))

SpecLiveFair == SpecLive /\ Fairness

\* C27: a call that has returned does not hold the mutex, whatever path it
\* took, and under fair scheduling every call that was made returns: no
\* caller waits forever
C27_CallsReturnUnlocked ==
  /\ [](\A w \in Workers :
          callers[w].at = "idle" => mutex.writer # w /\ w \notin mutex.readers)
  /\ \A w \in Workers : (callers[w].at # "idle") ~> (callers[w].at = "idle")

\* C27 happens: one caller's Toggle returned through the index check and the
\* other's Add through a failed save, and the mutex is free again
C27_Witness ==
  /\ mutex = FreeMutex
  /\ \A w \in Workers : callers[w].at = "idle"
  /\ \E w \in Workers : callers[w].path = "range"
  /\ \E w \in Workers : callers[w].path = "persist"

\* the strict store's rejection of an empty message is among the paths
C27_WitnessEmpty ==
  /\ deploy.store = "v2"
  /\ callers["w1"].at = "idle" /\ callers["w1"].path = "empty"
  /\ callers["w2"].at = "body"

\* ------------------------------------- two file providers, one file
MaxSharedTodos == 2

\* the path createFileProvider falls back to
SharedPath == "data/todos.json"

\* the collector run over the heap both providers' slices live in
Collected(arrs, sh) ==
  LET u == Refs({sh[p].slice : p \in FileProviders})
  IN  [arrays |-> Sweep(arrs, u),
       shared |-> [p \in FileProviders |-> [sh[p] EXCEPT !.slice = Move(@, u)]]]

\* a process started over no file, an empty list, or a list of one item
InitSharedFile ==
  /\ fs \in {NoFile, FileOf(MarshalIndent(<<>>)),
             FileOf(MarshalIndent(<<NewTodo("z")>>))}
  /\ arrays = <<>>
  /\ todos = EmptySlice
  /\ constructed = FALSE
  /\ loadErr = "none"
  /\ faults = 0
  /\ pure = FALSE
  /\ adds = <<>>
  /\ allOk = TRUE
  /\ last = NoCall
  /\ pair = NoPair
  /\ InitWorkers
  /\ serialList = <<>>
  /\ serialFs = NoFile
  /\ okAdds = {}
  /\ lastSave = "ok"
  /\ InitReg
  /\ InitExt

sharedOthers == <<todos, constructed, loadErr, faults, histVars, concVars,
                  regVars, pfVars, provVars, httpVars, gmailVars, nullVars,
                  originVars, lockVars>>

\* pf.createFileProvider(args) with args that name the shared path:
\* NewTodoFileProvider(todoFilename) loads the file, or creates it
CreateFileProvider(p, args) ==
  /\ ~shared[p].made
  /\ LET c == createFileProvider(args)
         l == load(fs, "ok", "ok", "ok")
         s == SliceOf(arrays, EmptySlice, l.todos)
         g == Collected(s.arrays,
                        [shared EXCEPT ![p] = [made |-> TRUE,
                                               todoFile |-> c.provider.todoFile,
                                               slice |-> s.slice]])
     IN  /\ c.provider.todoFile = SharedPath
         /\ fs' = l.fs
         /\ arrays' = g.arrays
         /\ shared' = g.shared
  /\ UNCHANGED <<sharedHist, sharedOthers>>

\* the messages some provider holds or the file held at the start
SharedMessages ==
  {sharedHist.added[i].msg : i \in DOMAIN sharedHist.added} \cup {"z"}

\* p.AddTodo(message), the write succeeding
SharedAddTodo(p, m) ==
  /\ shared[p].made
  /\ shared[p].slice.len < MaxSharedTodos
  /\ m \notin SharedMessages
  /\ LET a == AppendSlice(arrays, shared[p].slice, NewTodo(m))
         sv == save(Elems(a.arrays, a.slice), fs, "ok")
         g == Collected(a.arrays, [shared EXCEPT ![p].slice = a.slice])
     IN  /\ fs' = sv.fs
         /\ arrays' = g.arrays
         /\ shared' = g.shared
         /\ sharedHist' = [added |-> Append(sharedHist.added, [by |-> p, msg |-> m]),
                           by |-> p]
  /\ UNCHANGED sharedOthers

\* p.ToggleTodo(index), the write succeeding
SharedToggleTodo(p, i) ==
  /\ shared[p].made
  /\ IF i < 0 \/ i >= shared[p].slice.len
     THEN UNCHANGED <<fs, arrays>>
     ELSE LET fl == FlipDone(arrays, shared[p].slice, i)
          IN  /\ arrays' = fl
              /\ fs' = save(Elems(fl, shared[p].slice), fs, "ok").fs
  /\ sharedHist' = [sharedHist EXCEPT !.by = p]
  /\ UNCHANGED <<shared, sharedOthers>>

NextShared ==
  \E p \in FileProviders :
    \/ \E args \in ProviderArgs : CreateFileProvider(p, args)
    \/ \E m \in Msgs : SharedAddTodo(p, m)
    \/ \E i \in -1..MaxSharedTodos - 1 : SharedToggleTodo(p, i)

SpecShared == InitSharedFile /\ [][NextShared]_vars

\* the messages of the items a reader of the file finds
FileMessages == {Reopen(fs)[k].message : k \in DOMAIN Reopen(fs)}

\* C30: an item one file provider added with success is in the file after
\* every later call on the other provider of the same file
C30_FileKeepsOthersItems ==
  \A i \in DOMAIN sharedHist.added :
    sharedHist.added[i].by # sharedHist.by =>
      sharedHist.added[i].msg \in FileMessages

\* ------------------------------------------------------------ todo store
\* C1: from an empty store, after successful Adds m1..mk and no other
\* mutation, List is exactly [{done:false,m1}, ..., {done:false,mk}]
C1_AddAppendsInOrder ==
  pure => List = [i \in 1..Len(adds) |-> [done |-> FALSE, message |-> adds[i]]]

C1_Witness == pure /\ Len(adds) >= 2 /\ adds[1] # adds[2]

\* C2: two consecutive successful Toggle(i) of a valid i leave the list and
\* the persisted file as they were before the first; one Toggle(i) changes
\* only the done flag of item i
C2_ToggleTwiceRestoresListAndFile ==
  /\ pair.on => List = pair.preTodos /\ fs = pair.preFs
  /\ ToggledOk(last, last.idx) =>
        List = [last.preTodos EXCEPT ![last.idx + 1].done = ~@]

\* C2 as it holds: two consecutive successful Toggle(i) of a valid i leave
\* the list as it was before the first and the file holding its
\* serialisation; one Toggle(i) changes only the done flag of item i
C2_ToggleTwiceRestoresList ==
  /\ pair.on => List = pair.preTodos /\ fs = FileOf(MarshalIndent(pair.preTodos))
  /\ ToggledOk(last, last.idx) =>
        List = [last.preTodos EXCEPT ![last.idx + 1].done = ~@]

C2_Witness == pair.on /\ Len(List) >= 2 /\ last.idx = 1

\* C3: after successful Add/Toggle calls only, a fresh store over the same
\* file lists what the first store lists
C3_ReopenEqualsList ==
  constructed /\ last.op # "none" /\ allOk => Reopen(fs) = List

\* C4: whenever an Add or Toggle returns success, the file holds a
\* serialisation of the in-memory list (it exists and deserialises, without
\* error, to that list), whatever failed before
C4_SuccessMeansFileIsList ==
  last.op \in {"add", "toggle"} /\ last.err = "none" =>
    fs.exists /\ Unmarshal(fs.data, <<>>) = [todos |-> List, err |-> "none"]

\* C5: a call whose persist step failed leaves the in-memory list as it was
\* before the call, and memory never diverges from disk
C5_FailedPersistRolledBack ==
  last.op \in {"add", "toggle"} /\ last.err # "none" =>
    List = last.preTodos /\ Reopen(fs) = List

\* C8: a store whose load failed (directory, read, deserialise) is not
\* handed back as a usable store
C8_LoadFailureReported == constructed => loadErr = "none"

\* --------------------------------------------------- concurrent callers
Quiescent == \A w \in Workers : pc[w] = "idle"

Count(ts, m) == Cardinality({i \in 1..Len(ts) : ts[i].message = m})

Race(r, w) ==
  /\ pc[r] = "encode" /\ pc[w] = "tog_flip"
  /\ held[r].arr = todos.arr /\ loc[w].idx < held[r].len

\* C7: what GetTodos returned is a snapshot no later Add or Toggle changes,
\* and no reader reads an item while a mutation writes it
C7_ListIsSnapshot ==
  /\ \A r \in Workers : pc[r] = "encode" => Elems(arrays, held[r]) = seen[r]
  /\ \A r \in Workers, w \in Workers : ~Race(r, w)

\* the store keeps every position of the list lst: the same messages at the
\* same indexes, and possibly more after them
KeepsPositions(lst, after) ==
  /\ Len(after) >= Len(lst)
  /\ \A i \in 1..Len(lst) : after[i].message = lst[i].message

====
